---------------------------- MODULE Spec2Model ----------------------------
(***************************************************************************)
(* A model of the hdltypes library: the nine-valued logic types StdLogic,  *)
(* X01Z and Bit (logic.py), the direction-aware Range (range.py), the      *)
(* generic Array (array.py), the logic arrays (logic_array.py) and the     *)
(* Unsigned integer (integer.py).                                          *)
(*                                                                         *)
(* Python values are records tagged by a field k.  A call that raises is   *)
(* a record [st |-> <exception name>]; a call that returns is a record     *)
(* with st = "ok".  Python's NotImplemented is its own result.             *)
(***************************************************************************)
EXTENDS Integers, Sequences, FiniteSets, TLC

VARIABLES
    lcall,      \* the last call made on the logic types, with its result
    rcall,      \* the last call made on Range, with its result
    arr,        \* the array under test: its _value list and its _range
    acall,      \* the last call made on the array under test, with its result
    u,          \* the Unsigned under test: its _value and its _range
    ucall,      \* the last call made on the Unsigned under test, with its result
    cache,      \* the lru_cache of StdLogic.__new__ and that of StdLogic._make
    created,    \* the logic instances object.__new__ has made
    threads,    \* each thread's position in a construction, and its last result
    held,       \* the logic instances that have been returned to callers
    calls,      \* how many constructions have been started
    heap,       \* the list objects of the arrays: the elements of each
    arrays      \* the arrays a program holds: the list and the range of each

arrayVars == <<lcall, rcall, arr, acall>>

unsignedVars == <<u, ucall>>

internVars == <<cache, created, threads, held, calls>>

storageVars == <<heap, arrays>>

vars == <<lcall, rcall, arr, acall, u, ucall, cache, created, threads, held,
          calls, heap, arrays>>

-----------------------------------------------------------------------------
(* Python values and results *)

PyStr(s) == [k |-> "str", s |-> s]
PyInt(n) == [k |-> "int", n |-> n]
\* bool is a subclass of int: True == 1 and False == 0, with equal hashes
PyBool(n) == [k |-> "bool", n |-> n]
Object == [k |-> "object"]
NoArg == [k |-> "none"]
Logic(cls, repr) == [k |-> "logic", cls |-> cls, repr |-> repr]

Ok(v) == [st |-> "ok", val |-> v]
Raise(e) == [st |-> e]
NotImplemented == [st |-> "NotImplemented"]
IsOk(r) == r.st = "ok"

IsLogic(v) == v.k = "logic"
IsNumber(v) == v.k \in {"int", "bool"}

\* Python's == between a literal and a key of a dict of str and int keys
KeyEq(v, key) ==
    \/ v.k = "str" /\ key.k = "str" /\ v.s = key.s
    \/ IsNumber(v) /\ IsNumber(key) /\ v.n = key.n

-----------------------------------------------------------------------------
(* logic.py *)

_U == 0
_X == 1
_c0 == 2
_c1 == 3
_Z == 4
_W == 5
_L == 6
_H == 7
_DC == 8

LogicClasses == {"StdLogic", "X01Z", "Bit"}

\* the class statement of each type: its one base class
Base(cls) ==
    CASE cls = "Bit" -> "X01Z"
      [] cls = "X01Z" -> "StdLogic"
      [] cls = "StdLogic" -> "Logic"

\* issubclass(sub, cls) along the single-inheritance chain
IsSubclass(sub, cls) ==
    \/ sub = cls
    \/ sub = "Bit" /\ cls \in {Base("Bit"), Base(Base("Bit"))}
    \/ sub = "X01Z" /\ cls = Base("X01Z")

\* isinstance(other, type(self)) for a logic self
IsInstance(other, cls) == IsLogic(other) /\ IsSubclass(other.cls, cls)

__values__(cls) ==
    CASE cls = "StdLogic" -> <<_U, _X, _c0, _c1, _Z, _L, _H, _W, _DC>>
      [] cls = "X01Z" -> <<_X, _c0, _c1, _Z>>
      [] cls = "Bit" -> <<_c0, _c1>>

InSeq(x, s) == \E i \in 1..Len(s) : s[i] = x

_literal_repr == <<
    [key |-> PyStr("U"), repr |-> _U],
    [key |-> PyStr("u"), repr |-> _U],
    [key |-> PyStr("X"), repr |-> _X],
    [key |-> PyStr("x"), repr |-> _X],
    [key |-> PyInt(0), repr |-> _c0],
    [key |-> PyStr("0"), repr |-> _c0],
    [key |-> PyInt(1), repr |-> _c1],
    [key |-> PyStr("1"), repr |-> _c1],
    [key |-> PyStr("Z"), repr |-> _Z],
    [key |-> PyStr("z"), repr |-> _Z],
    [key |-> PyStr("L"), repr |-> _L],
    [key |-> PyStr("l"), repr |-> _L],
    [key |-> PyStr("H"), repr |-> _H],
    [key |-> PyStr("h"), repr |-> _H],
    [key |-> PyStr("W"), repr |-> _W],
    [key |-> PyStr("w"), repr |-> _W],
    [key |-> PyStr("-"), repr |-> _DC] >>

\* value in _literal_repr
InLiteralRepr(value) ==
    \E i \in 1..Len(_literal_repr) : KeyEq(value, _literal_repr[i].key)

\* _literal_repr[value]
LiteralReprOf(value) ==
    _literal_repr[CHOOSE i \in 1..Len(_literal_repr) :
                      KeyEq(value, _literal_repr[i].key)].repr

\* _and_table with 1 & 0 giving 1, while 0 & 1 gives 0
_and_table_Skewed == <<
    <<"U", "U", "0", "U", "U", "U", "0", "U", "U">>,
    <<"U", "X", "0", "X", "X", "X", "0", "X", "X">>,
    <<"0", "0", "0", "0", "0", "0", "0", "0", "0">>,
    <<"U", "X", "1", "1", "X", "X", "0", "1", "X">>,
    <<"U", "X", "0", "X", "X", "X", "0", "X", "X">>,
    <<"U", "X", "0", "X", "X", "X", "0", "X", "X">>,
    <<"0", "0", "0", "0", "0", "0", "0", "0", "0">>,
    <<"U", "X", "0", "1", "X", "X", "0", "1", "X">>,
    <<"U", "X", "0", "X", "X", "X", "0", "X", "X">> >>

_and_table == <<
    <<"U", "U", "0", "U", "U", "U", "0", "U", "U">>,
    <<"U", "X", "0", "X", "X", "X", "0", "X", "X">>,
    <<"0", "0", "0", "0", "0", "0", "0", "0", "0">>,
    <<"U", "X", "0", "1", "X", "X", "0", "1", "X">>,
    <<"U", "X", "0", "X", "X", "X", "0", "X", "X">>,
    <<"U", "X", "0", "X", "X", "X", "0", "X", "X">>,
    <<"0", "0", "0", "0", "0", "0", "0", "0", "0">>,
    <<"U", "X", "0", "1", "X", "X", "0", "1", "X">>,
    <<"U", "X", "0", "X", "X", "X", "0", "X", "X">> >>

_or_table == <<
    <<"U", "U", "U", "1", "U", "U", "U", "1", "U">>,
    <<"U", "X", "X", "1", "X", "X", "X", "1", "X">>,
    <<"U", "X", "0", "1", "X", "X", "0", "1", "X">>,
    <<"1", "1", "1", "1", "1", "1", "1", "1", "1">>,
    <<"U", "X", "X", "1", "X", "X", "X", "1", "X">>,
    <<"U", "X", "X", "1", "X", "X", "X", "1", "X">>,
    <<"U", "X", "0", "1", "X", "X", "0", "1", "X">>,
    <<"1", "1", "1", "1", "1", "1", "1", "1", "1">>,
    <<"U", "X", "X", "1", "X", "X", "X", "1", "X">> >>

_xor_table == <<
    <<"U", "U", "U", "U", "U", "U", "U", "U", "U">>,
    <<"U", "X", "X", "X", "X", "X", "X", "X", "X">>,
    <<"U", "X", "0", "1", "X", "X", "0", "1", "X">>,
    <<"U", "X", "1", "0", "X", "X", "1", "0", "X">>,
    <<"U", "X", "X", "X", "X", "X", "X", "X", "X">>,
    <<"U", "X", "X", "X", "X", "X", "X", "X", "X">>,
    <<"U", "X", "0", "1", "X", "X", "0", "1", "X">>,
    <<"U", "X", "1", "0", "X", "X", "1", "0", "X">>,
    <<"U", "X", "X", "X", "X", "X", "X", "X", "X">> >>

\* _not_table with the inverse of 'Z' left as don't care
_not_table_DontCare == <<"U", "X", "1", "0", "-", "X", "1", "0", "X">>

_not_table == <<"U", "X", "1", "0", "X", "X", "1", "0", "X">>

_str_table == <<"U", "X", "0", "1", "Z", "W", "L", "H", "-">>

\* cls._make(repr): the instance of cls holding repr
_make(cls, repr) == Logic(cls, repr)

\* StdLogic.__new__ without the check against cls.__values__
StdLogic__new__Unchecked(cls, value) ==
    IF value.k = "none"
    THEN Ok(_make(cls, __values__(cls)[1]))
    ELSE IF InLiteralRepr(value) THEN Ok(_make(cls, LiteralReprOf(value)))
    ELSE IF IsLogic(value) THEN Ok(_make(cls, value.repr))
    ELSE Raise("ValueError")

\* cls(value); cls() is cls(NoArg)
StdLogic__new__(cls, value) ==
    IF value.k = "none"
    THEN Ok(_make(cls, __values__(cls)[1]))
    ELSE IF InLiteralRepr(value)
    THEN IF InSeq(LiteralReprOf(value), __values__(cls))
         THEN Ok(_make(cls, LiteralReprOf(value)))
         ELSE Raise("ValueError")
    ELSE IF IsLogic(value) /\ InSeq(value.repr, __values__(cls))
    THEN Ok(_make(cls, value.repr))
    ELSE Raise("ValueError")

StdLogic__str__(self) == _str_table[self.repr + 1]

\* StdLogic.__and__ building the result as type(other) instead of type(self)
StdLogic__and__Other(self, other) ==
    IF IsInstance(other, self.cls)
    THEN StdLogic__new__(other.cls, PyStr(_and_table[self.repr + 1][other.repr + 1]))
    ELSE NotImplemented

StdLogic__and__(self, other) ==
    IF IsInstance(other, self.cls)
    THEN StdLogic__new__(self.cls, PyStr(_and_table[self.repr + 1][other.repr + 1]))
    ELSE NotImplemented

\* StdLogic.__or__ with the isinstance test the wrong way round
StdLogic__or__Swapped(self, other) ==
    IF IsLogic(other) /\ IsSubclass(self.cls, other.cls)
    THEN StdLogic__new__(self.cls, PyStr(_or_table[self.repr + 1][other.repr + 1]))
    ELSE NotImplemented

StdLogic__or__(self, other) ==
    IF IsInstance(other, self.cls)
    THEN StdLogic__new__(self.cls, PyStr(_or_table[self.repr + 1][other.repr + 1]))
    ELSE NotImplemented

StdLogic__xor__(self, other) ==
    IF IsInstance(other, self.cls)
    THEN StdLogic__new__(self.cls, PyStr(_xor_table[self.repr + 1][other.repr + 1]))
    ELSE NotImplemented

StdLogic__invert__(self) ==
    StdLogic__new__(self.cls, PyStr(_not_table[self.repr + 1]))

\* StdLogic.__eq__ comparing type(other) with type(self) instead of isinstance
StdLogic__eq__Exact(self, other) ==
    IF IsLogic(other) /\ other.cls = self.cls
    THEN Ok(self.repr = other.repr)
    ELSE NotImplemented

StdLogic__eq__(self, other) ==
    IF IsInstance(other, self.cls)
    THEN Ok(self.repr = other.repr)
    ELSE NotImplemented

\* hash(self._repr): a small int hashes to itself
StdLogic__hash__(self) == self.repr

\* the forward method of a binary operator; int and str operands have none
\* that accepts a logic value
Forward(a, b, op) ==
    IF ~IsLogic(a) THEN NotImplemented
    ELSE CASE op = "and" -> StdLogic__and__(a, b)
           [] op = "or" -> StdLogic__or__(a, b)
           [] op = "xor" -> StdLogic__xor__(a, b)

RECURSIVE PyBinary(_, _, _)

\* return self & other
StdLogic__rand__(self, other) == PyBinary(self, other, "and")

\* return self | other
StdLogic__ror__(self, other) == PyBinary(self, other, "or")

\* return self ^ other
StdLogic__rxor__(self, other) == PyBinary(self, other, "xor")

Reflected(b, a, op) ==
    IF ~IsLogic(b) THEN NotImplemented
    ELSE CASE op = "and" -> StdLogic__rand__(b, a)
           [] op = "or" -> StdLogic__ror__(b, a)
           [] op = "xor" -> StdLogic__rxor__(b, a)

\* The expression a op b: the forward method of a, then, when that is not
\* implemented and the types differ, the reflected method of b; TypeError when
\* neither implements it.  (The reflected method of a subclass goes first
\* only when the subclass overrides it, which no logic type does.)
PyBinary(a, b, op) ==
    IF Forward(a, b, op) # NotImplemented THEN Forward(a, b, op)
    ELSE IF IsLogic(b) /\ ~(IsLogic(a) /\ a.cls = b.cls)
            /\ Reflected(b, a, op) # NotImplemented
    THEN Reflected(b, a, op)
    ELSE Raise("TypeError")

\* The expression a == b: the reflected __eq__ first when type(b) is a proper
\* subclass of type(a), then a.__eq__(b), then b.__eq__(a), then identity.
\* An int or a str answers NotImplemented to a logic value, and two distinct
\* objects of different types are never identical.
PyEqOf(a, b, ab, ba) ==
    IF IsLogic(a) /\ IsLogic(b) /\ a.cls # b.cls /\ IsSubclass(b.cls, a.cls)
       /\ ba # NotImplemented
    THEN ba.val
    ELSE IF ab # NotImplemented THEN ab.val
    ELSE IF ba # NotImplemented THEN ba.val
    ELSE a = b

PyEq(a, b) ==
    PyEqOf(a, b,
           IF IsLogic(a) THEN StdLogic__eq__(a, b) ELSE NotImplemented,
           IF IsLogic(b) THEN StdLogic__eq__(b, a) ELSE NotImplemented)

\* hash(v) of a logic value or of a small int, bool or other object
PyHash(v) ==
    IF IsLogic(v) THEN StdLogic__hash__(v)
    ELSE IF IsNumber(v) THEN v.n
    ELSE 0 - 1

-----------------------------------------------------------------------------
(* the inputs of the logic calls *)

LiteralStrings ==
    {"U", "u", "X", "x", "0", "1", "Z", "z", "L", "l", "H", "h", "W", "w", "-",
     "A", "2", "", "01"}

MaxInt == 2

LogicValues ==
    UNION {{Logic(cls, __values__(cls)[i]) : i \in 1..Len(__values__(cls))} :
           cls \in LogicClasses}

NonLogicValues ==
    {PyStr(s) : s \in LiteralStrings} \cup {PyInt(n) : n \in -1..MaxInt}
        \cup {PyBool(0), PyBool(1)} \cup {Object}

ConstructorInputs == LogicValues \cup NonLogicValues \cup {NoArg}

BinaryOps == {"and", "or", "xor"}

InitLogic == lcall = [op |-> "none"]

\* T(v) and T()
LogicConstruct ==
    /\ lcall.op = "none"
    /\ \E cls \in LogicClasses, v \in ConstructorInputs :
        lcall' = [op |-> "new", cls |-> cls, arg |-> v,
                  res |-> StdLogic__new__(cls, v)]
    /\ UNCHANGED <<rcall, arr, acall, unsignedVars, internVars, storageVars>>

\* a & b, a | b, a ^ b with a logic value on at least one side, and the
\* forward method called on its own
LogicBinary ==
    /\ lcall.op = "none"
    /\ \E a \in LogicValues \cup NonLogicValues, b \in LogicValues \cup NonLogicValues,
          op \in BinaryOps :
        /\ IsLogic(a) \/ IsLogic(b)
        /\ lcall' = [op |-> op, a |-> a, b |-> b,
                     method |-> Forward(a, b, op),
                     res |-> PyBinary(a, b, op),
                     swapped |-> PyBinary(b, a, op),
                     reflected |-> Reflected(b, a, op)]
    /\ UNCHANGED <<rcall, arr, acall, unsignedVars, internVars, storageVars>>

\* ~a
LogicInvert ==
    /\ lcall.op = "none"
    /\ \E a \in LogicValues :
        lcall' = [op |-> "invert", a |-> a, res |-> StdLogic__invert__(a)]
    /\ UNCHANGED <<rcall, arr, acall, unsignedVars, internVars, storageVars>>

\* a == b, hash(a) and hash(b) with a logic value on at least one side
LogicCompare ==
    /\ lcall.op = "none"
    /\ \E a \in LogicValues \cup NonLogicValues, b \in LogicValues \cup NonLogicValues :
        /\ IsLogic(a) \/ IsLogic(b)
        /\ lcall' = [op |-> "eq", a |-> a, b |-> b, res |-> PyEq(a, b),
                     ha |-> PyHash(a), hb |-> PyHash(b)]
    /\ UNCHANGED <<rcall, arr, acall, unsignedVars, internVars, storageVars>>

NextLogic ==
    \/ LogicConstruct
    \/ LogicBinary
    \/ LogicInvert
    \/ LogicCompare

-----------------------------------------------------------------------------
(* Python's range, list and slice objects, as range.py and array.py use them *)

\* range(start, stop, step)
PyRange(start, stop, step) == [start |-> start, stop |-> stop, step |-> step]

\* len(range(start, stop, step))
PyRangeLen(r) ==
    IF r.step > 0
    THEN IF r.start < r.stop THEN (r.stop - r.start - 1) \div r.step + 1 ELSE 0
    ELSE IF r.start > r.stop THEN (r.start - r.stop - 1) \div (0 - r.step) + 1 ELSE 0

\* the members of a range, in order
PyRangeSeq(r) == [i \in 1..PyRangeLen(r) |-> r.start + (i - 1) * r.step]

\* range == range compares the two as sequences: the lengths, then the
\* starts unless both are empty, then the steps unless both hold one member
PyRangeEq(r0, r1) ==
    IF PyRangeLen(r0) # PyRangeLen(r1) THEN FALSE
    ELSE IF PyRangeLen(r0) = 0 THEN TRUE
    ELSE IF r0.start # r1.start THEN FALSE
    ELSE IF PyRangeLen(r0) = 1 THEN TRUE
    ELSE r0.step = r1.step

\* slice(start, stop, step); an omitted field is NoArg
Slice(start, stop, step) == [k |-> "slice", start |-> start, stop |-> stop, step |-> step]

\* one bound of a slice against a sequence of length len: a negative bound
\* counts from the end, and a bound outside the sequence is clamped
SliceBound(b, len, step, dflt) ==
    IF b.k = "none" THEN dflt
    ELSE IF b.n < 0
    THEN IF b.n + len < 0 THEN (IF step < 0 THEN 0 - 1 ELSE 0) ELSE b.n + len
    ELSE IF b.n >= len THEN (IF step < 0 THEN len - 1 ELSE len)
    ELSE b.n

SliceStep(s) == IF s.step.k = "none" THEN 1 ELSE s.step.n

SliceStart(s, len) ==
    SliceBound(s.start, len, SliceStep(s), IF SliceStep(s) < 0 THEN len - 1 ELSE 0)

SliceStop(s, len) ==
    SliceBound(s.stop, len, SliceStep(s), IF SliceStep(s) < 0 THEN 0 - 1 ELSE len)

\* range[i] for an int i
PyRangeAt(r, j) ==
    IF j < 0 \/ j >= PyRangeLen(r) THEN Raise("IndexError")
    ELSE Ok(r.start + j * r.step)

PyRangeItem(r, i) == PyRangeAt(r, IF i < 0 THEN i + PyRangeLen(r) ELSE i)

\* range[slice]: the positions the slice selects, as a range
PyRangeSlice(r, s) ==
    PyRange(r.start + SliceStart(s, PyRangeLen(r)) * r.step,
            r.start + SliceStop(s, PyRangeLen(r)) * r.step,
            r.step * SliceStep(s))

-----------------------------------------------------------------------------
(* range.py *)

\* str.lower() on the direction strings in use
Lower(s) ==
    CASE s = "TO" -> "to"
      [] s = "To" -> "to"
      [] s = "DOWNTO" -> "downto"
      [] s = "DownTo" -> "downto"
      [] OTHER -> s

_guess_step(left, right) == IF left <= right THEN 1 ELSE 0 - 1

_direction_to_step(direction) ==
    IF Lower(direction) = "to" THEN Ok(1)
    ELSE IF Lower(direction) = "downto" THEN Ok(0 - 1)
    ELSE Raise("ValueError")

_step_to_direction(step) ==
    IF step = 1 THEN Ok("to")
    ELSE IF step = 0 - 1 THEN Ok("downto")
    ELSE Raise("ValueError")

\* a Range object: its _range attribute
RangeObj(r) == [k |-> "Range", _range |-> r]

IsRange(v) == v.k = "Range"

\* Range(left, direction, right): direction is an int, a str or omitted,
\* right is an int or omitted
Range__init__(left, direction, right) ==
    IF direction.k = "int" /\ right.k = "none"
    THEN Ok(RangeObj(PyRange(left,
                             direction.n + _guess_step(left, direction.n),
                             _guess_step(left, direction.n))))
    ELSE IF direction.k = "none" /\ right.k = "int"
    THEN Ok(RangeObj(PyRange(left,
                             right.n + _guess_step(left, right.n),
                             _guess_step(left, right.n))))
    ELSE IF direction.k = "str" /\ right.k = "int"
    THEN IF IsOk(_direction_to_step(direction.s))
         THEN Ok(RangeObj(PyRange(left,
                                  right.n + _direction_to_step(direction.s).val,
                                  _direction_to_step(direction.s).val)))
         ELSE _direction_to_step(direction.s)
    ELSE Raise("TypeError")

\* Range.from_range taking the exclusive stop for the right bound
Range_from_range_Stop(range) ==
    IF IsOk(_step_to_direction(range.step))
    THEN Range__init__(range.start, PyStr(_step_to_direction(range.step).val),
                       PyInt(range.stop))
    ELSE _step_to_direction(range.step)

Range_from_range(range) ==
    IF IsOk(_step_to_direction(range.step))
    THEN Range__init__(range.start, PyStr(_step_to_direction(range.step).val),
                       PyInt(range.stop - range.step))
    ELSE _step_to_direction(range.step)

Range_left(self) == self._range.start

\* the step is 1 or -1 in every Range, so the conversion succeeds
Range_direction(self) == _step_to_direction(self._range.step).val

\* Range.right without the step taken off the exclusive stop
Range_right_Stop(self) == self._range.stop

Range_right(self) == self._range.stop - self._range.step

Range__len__(self) == PyRangeLen(self._range)

Range__getitem__(self, item) ==
    IF item.k = "int" THEN PyRangeItem(self._range, item.n)
    ELSE IF item.k = "slice"
    THEN Range_from_range(PyRangeSlice(self._range, item))
    ELSE Raise("TypeError")

\* Range.__eq__ comparing start, stop and step instead of the ranges
Range__eq__Fields(self, other) ==
    IF IsRange(other) THEN Ok(self._range = other._range)
    ELSE NotImplemented

Range__eq__(self, other) ==
    IF IsRange(other) THEN Ok(PyRangeEq(self._range, other._range))
    ELSE NotImplemented

\* Sequence.index: the first position whose member equals value
FirstIndex(members, value) ==
    IF \E i \in DOMAIN members : members[i] = value
    THEN Ok(CHOOSE i \in DOMAIN members :
                /\ members[i] = value
                /\ \A j \in DOMAIN members : members[j] = value => i <= j)
    ELSE Raise("ValueError")

Range_index(self, value) ==
    FirstIndex([i \in 0..(Range__len__(self) - 1) |->
                    Range__getitem__(self, PyInt(i)).val], value)

\* iterating a Range: its members from left to right
Range__iter__(self) ==
    [i \in 1..Range__len__(self) |-> Range__getitem__(self, PyInt(i - 1)).val]

-----------------------------------------------------------------------------
(* the inputs of the Range calls *)

MaxIdx == 3

Bounds == (0 - 1)..MaxIdx

Directions == {"to", "downto"}

DirectionInputs == Directions \cup {"TO", "DownTo", "up"}

\* every Range the two constructors build over Bounds
Ranges ==
    {Range__init__(l, PyStr(d), PyInt(r)).val : l \in Bounds, d \in Directions, r \in Bounds}

SliceBounds == {NoArg} \cup {PyInt(n) : n \in (0 - 2)..(MaxIdx + 1)}

SliceSteps == {NoArg, PyInt(0 - 1), PyInt(2)}

InitRange == rcall = [op |-> "none"]

\* Range(l, d, r), and what its properties read back
RangeConstruct3 ==
    /\ rcall.op = "none"
    /\ \E l \in Bounds, d \in DirectionInputs, r \in Bounds :
        LET res == Range__init__(l, PyStr(d), PyInt(r))
        IN  rcall' = [op |-> "new3", l |-> l, d |-> d, r |-> r, res |-> res,
                      left |-> IF IsOk(res) THEN Range_left(res.val) ELSE 0,
                      right |-> IF IsOk(res) THEN Range_right(res.val) ELSE 0,
                      direction |-> IF IsOk(res) THEN Range_direction(res.val) ELSE "",
                      len |-> IF IsOk(res) THEN Range__len__(res.val) ELSE 0]
    /\ UNCHANGED <<lcall, arr, acall, unsignedVars, internVars, storageVars>>

\* Range(l, r), and what its properties read back
RangeConstruct2 ==
    /\ rcall.op = "none"
    /\ \E l \in Bounds, r \in Bounds :
        LET res == Range__init__(l, PyInt(r), NoArg)
        IN  rcall' = [op |-> "new2", l |-> l, r |-> r, res |-> res,
                      left |-> Range_left(res.val),
                      right |-> Range_right(res.val),
                      direction |-> Range_direction(res.val),
                      len |-> Range__len__(res.val)]
    /\ UNCHANGED <<lcall, arr, acall, unsignedVars, internVars, storageVars>>

\* a == b for two Ranges, or a Range and something else
RangeCompare ==
    /\ rcall.op = "none"
    /\ \E a \in Ranges, b \in Ranges \cup {PyInt(0), Object} :
        LET m == Range__eq__(a, b)
        IN  rcall' = [op |-> "eq", a |-> a, b |-> b,
                      res |-> IF m = NotImplemented THEN FALSE ELSE m.val]
    /\ UNCHANGED <<lcall, arr, acall, unsignedVars, internVars, storageVars>>

\* r[a:b] and r[a:b:s]
RangeSlice ==
    /\ rcall.op = "none"
    /\ \E r \in Ranges, a \in SliceBounds, b \in SliceBounds, s \in SliceSteps :
        rcall' = [op |-> "slice", self |-> r, a |-> a, b |-> b, s |-> s,
                  res |-> Range__getitem__(r, Slice(a, b, s))]
    /\ UNCHANGED <<lcall, arr, acall, unsignedVars, internVars, storageVars>>

\* r[i] and r.index(v)
RangeLookup ==
    /\ rcall.op = "none"
    /\ \E r \in Ranges, i \in (0 - 2)..(MaxIdx + 1) :
        rcall' = [op |-> "item", self |-> r, i |-> i,
                  res |-> Range__getitem__(r, PyInt(i)),
                  index |-> Range_index(r, i)]
    /\ UNCHANGED <<lcall, arr, acall, unsignedVars, internVars, storageVars>>

NextRange ==
    \/ RangeConstruct3
    \/ RangeConstruct2
    \/ RangeCompare
    \/ RangeSlice
    \/ RangeLookup

-----------------------------------------------------------------------------
InitUnsigned == u = [k |-> "none"] /\ ucall = [op |-> "none"]

\* the threads that construct logic values
NumThreads == 2

Threads == 1..NumThreads

\* no construction has been made: both caches are empty
InitIntern ==
    /\ cache = [new |-> {}, make |-> {}]
    /\ created = {}
    /\ threads = [t \in Threads |-> [pc |-> "idle"]]
    /\ held = {}
    /\ calls = 0

\* the program holds no array yet
InitStorage == heap = <<>> /\ arrays = <<>>

InitArray == arr = [k |-> "none"] /\ acall = [op |-> "none"]

Init ==
    /\ InitLogic /\ InitRange /\ InitArray
    /\ InitUnsigned /\ InitIntern /\ InitStorage

SpecLogic == Init /\ [][NextLogic]_vars

SpecRange == Init /\ [][NextRange]_vars

-----------------------------------------------------------------------------
(* The claims about the logic types, checked under SpecLogic *)

\* Bit < X01Z < StdLogic
Rank(cls) == CASE cls = "Bit" -> 0 [] cls = "X01Z" -> 1 [] cls = "StdLogic" -> 2

Wider(s, t) == IF Rank(s) >= Rank(t) THEN s ELSE t

\* the permitted set of each subtype, as the documentation lists it
PermittedCodes(cls) ==
    CASE cls = "StdLogic" -> {_U, _X, _c0, _c1, _Z, _W, _L, _H, _DC}
      [] cls = "X01Z" -> {_X, _c0, _c1, _Z}
      [] cls = "Bit" -> {_c0, _c1}

FirstPermitted(cls) ==
    CASE cls = "StdLogic" -> _U [] cls = "X01Z" -> _X [] cls = "Bit" -> _c0

Upper(s) ==
    CASE s = "u" -> "U" [] s = "x" -> "X" [] s = "z" -> "Z" [] s = "w" -> "W"
      [] s = "l" -> "L" [] s = "h" -> "H" [] OTHER -> s

\* the codes a constructor input denotes: none or one
Denoted(cls, v) ==
    CASE v.k = "none" -> {FirstPermitted(cls)}
      [] v.k = "logic" -> {v.repr}
      [] v.k \in {"int", "bool"} ->
            IF v.n = 0 THEN {_c0} ELSE IF v.n = 1 THEN {_c1} ELSE {}
      [] v.k = "str" ->
            CASE Upper(v.s) = "U" -> {_U} [] Upper(v.s) = "X" -> {_X}
              [] Upper(v.s) = "0" -> {_c0} [] Upper(v.s) = "1" -> {_c1}
              [] Upper(v.s) = "Z" -> {_Z} [] Upper(v.s) = "W" -> {_W}
              [] Upper(v.s) = "L" -> {_L} [] Upper(v.s) = "H" -> {_H}
              [] Upper(v.s) = "-" -> {_DC} [] OTHER -> {}
      [] OTHER -> {}

BothLogic == lcall.op \in BinaryOps \cup {"eq"} /\ IsLogic(lcall.a) /\ IsLogic(lcall.b)

\* C2: logic values of any two subtypes are equal, in both operand orders,
\* exactly when their codes are equal, equal codes hash equally, and a logic
\* value never equals an int, a bool, a str or another object.
C2_EqualityAcrossSubtypes ==
    lcall.op = "eq" =>
        /\ BothLogic => /\ lcall.res = (lcall.a.repr = lcall.b.repr)
                        /\ lcall.a.repr = lcall.b.repr => lcall.ha = lcall.hb
        /\ ~BothLogic => lcall.res = FALSE

C2_Witness ==
    /\ lcall.op = "eq"
    /\ lcall.a = Logic("Bit", _c1) /\ lcall.b = Logic("StdLogic", _c1)
    /\ lcall.res = TRUE /\ lcall.ha = lcall.hb

\* C3: T(v) succeeds iff v denotes a code in T's permitted set, and then
\* holds exactly that code as a T; otherwise it raises ValueError.  T() holds
\* the first permitted code of T.
C3_ConstructIffPermitted ==
    lcall.op = "new" =>
        LET codes == Denoted(lcall.cls, lcall.arg) \cap PermittedCodes(lcall.cls)
        IN  /\ codes # {} => \E c \in codes : lcall.res = Ok(Logic(lcall.cls, c))
            /\ codes = {} => lcall.res = Raise("ValueError")

C3_Witness ==
    /\ lcall.op = "new" /\ lcall.cls = "X01Z" /\ lcall.arg = PyStr("z")
    /\ lcall.res = Ok(Logic("X01Z", _Z))

C3_WitnessRejected ==
    /\ lcall.op = "new" /\ lcall.cls = "X01Z" /\ lcall.arg = Logic("StdLogic", _L)
    /\ lcall.res = Raise("ValueError")

\* C4: a & b, a | b and a ^ b of two logic values return a value of the
\* wider of the two subtypes, whichever operand is on the left.
C4_ResultIsWiderSubtype ==
    (lcall.op \in BinaryOps /\ BothLogic) =>
        /\ IsOk(lcall.res)
        /\ lcall.res.val.cls = Wider(lcall.a.cls, lcall.b.cls)

C4_Witness ==
    /\ lcall.op = "and"
    /\ lcall.a = Logic("Bit", _c0) /\ lcall.b = Logic("X01Z", _Z)
    /\ lcall.res = Ok(Logic("X01Z", _c0))

\* C5 as stated: the operator method of a logic value reports NotImplemented
\* for every operand that is not of exactly its own concrete subtype.
C5_ExactSubtypeOnly ==
    (lcall.op \in BinaryOps /\ IsLogic(lcall.a)) =>
        (~(IsLogic(lcall.b) /\ lcall.b.cls = lcall.a.cls)
            => lcall.method = NotImplemented)

\* C5 amended: the operator method of a logic value a reports NotImplemented
\* exactly when the operand is not a logic value of a's subtype or of a
\* narrower one; for an operand of a's subtype or narrower it returns a value
\* of a's subtype.
C5_SameOrNarrowerSubtype ==
    (lcall.op \in BinaryOps /\ IsLogic(lcall.a)) =>
        IF IsLogic(lcall.b) /\ Rank(lcall.b.cls) <= Rank(lcall.a.cls)
        THEN IsOk(lcall.method) /\ lcall.method.val.cls = lcall.a.cls
        ELSE lcall.method = NotImplemented

C5_Witness ==
    /\ lcall.op = "or"
    /\ lcall.a = Logic("StdLogic", _U) /\ lcall.b = Logic("Bit", _c1)
    /\ lcall.method = Ok(Logic("StdLogic", _c1))

C5_WitnessRefused ==
    /\ lcall.op = "or"
    /\ lcall.a = Logic("Bit", _c1) /\ lcall.b = Logic("StdLogic", _U)
    /\ lcall.method = NotImplemented

\* C6: for two values of one subtype T the results of &, |, ^ and ~ are
\* codes T permits, so constructing the result as a T never raises.
C6_TablesClosed ==
    /\ (lcall.op \in BinaryOps /\ BothLogic /\ lcall.a.cls = lcall.b.cls) =>
            /\ IsOk(lcall.method)
            /\ lcall.method.val.cls = lcall.a.cls
            /\ lcall.method.val.repr \in PermittedCodes(lcall.a.cls)
    /\ lcall.op = "invert" =>
            /\ IsOk(lcall.res)
            /\ lcall.res.val.cls = lcall.a.cls
            /\ lcall.res.val.repr \in PermittedCodes(lcall.a.cls)

C6_Witness ==
    /\ lcall.op = "xor"
    /\ lcall.a = Logic("X01Z", _Z) /\ lcall.b = Logic("X01Z", _c1)
    /\ lcall.method = Ok(Logic("X01Z", _X))

C6_WitnessInvert ==
    /\ lcall.op = "invert" /\ lcall.a = Logic("Bit", _c1)
    /\ lcall.res = Ok(Logic("Bit", _c0))

-----------------------------------------------------------------------------
(* The claims about Range, checked under SpecRange *)

\* the Range the three-argument constructor builds
MkRange(l, d, r) == Range__init__(l, PyStr(d), PyInt(r)).val

SameFields(a, b) ==
    /\ Range_left(a) = Range_left(b)
    /\ Range_right(a) = Range_right(b)
    /\ Range_direction(a) = Range_direction(b)

\* C7: Range(l, d, r) has r-l+1 members when d is 'to' and l <= r, l-r+1
\* when d is 'downto' and l >= r, and none otherwise; left, right and
\* direction read back l, r and d even then.  Range(l, r) is 'downto' iff
\* r < l, and is never a null range.
C7_LengthAndFields ==
    /\ (rcall.op = "new3" /\ rcall.d \in Directions) =>
            /\ IsOk(rcall.res)
            /\ rcall.len = IF rcall.d = "to" /\ rcall.l <= rcall.r
                           THEN rcall.r - rcall.l + 1
                           ELSE IF rcall.d = "downto" /\ rcall.l >= rcall.r
                           THEN rcall.l - rcall.r + 1
                           ELSE 0
            /\ rcall.left = rcall.l
            /\ rcall.right = rcall.r
            /\ rcall.direction = rcall.d
    /\ rcall.op = "new2" =>
            /\ IsOk(rcall.res)
            /\ rcall.direction = (IF rcall.r < rcall.l THEN "downto" ELSE "to")
            /\ rcall.left = rcall.l
            /\ rcall.right = rcall.r
            /\ rcall.len >= 1

C7_WitnessNull ==
    /\ rcall.op = "new3" /\ rcall.l = 1 /\ rcall.d = "to" /\ rcall.r = 0
    /\ rcall.len = 0 /\ rcall.left = 1 /\ rcall.right = 0 /\ rcall.direction = "to"

C7_WitnessInferred ==
    /\ rcall.op = "new2" /\ rcall.l = 3 /\ rcall.r = 1
    /\ rcall.direction = "downto" /\ rcall.len = 3

\* C8 as stated: two Ranges are equal iff left, right and direction are all
\* equal.
C8_FieldEquality ==
    (rcall.op = "eq" /\ IsRange(rcall.b)) =>
        rcall.res = SameFields(rcall.a, rcall.b)

\* C8 amended: two Ranges are equal iff they hold the same members in the
\* same order.  Equal left, right and direction give equal Ranges, but every
\* two null ranges are equal, and so are two one-member ranges with the same
\* member and different directions.
C8_MemberEquality ==
    (rcall.op = "eq" /\ IsRange(rcall.b)) =>
        /\ rcall.res = (Range__iter__(rcall.a) = Range__iter__(rcall.b))
        /\ SameFields(rcall.a, rcall.b) => rcall.res

C8_Witness ==
    /\ rcall.op = "eq"
    /\ rcall.a = MkRange(1, "to", 0) /\ rcall.b = MkRange(2, "downto", 3)
    /\ rcall.res = TRUE

C8_WitnessUnequal ==
    /\ rcall.op = "eq"
    /\ rcall.a = MkRange(0, "to", 2) /\ rcall.b = MkRange(0, "to", 3)
    /\ rcall.res = FALSE

IsMember(r, i) == \E j \in 1..Range__len__(r) : Range__iter__(r)[j] = i

PlainSlice ==
    /\ rcall.op = "slice" /\ rcall.s.k = "none"
    /\ rcall.a.k = "int" /\ rcall.b.k = "int"

\* C9 as stated: range[a:b] takes a and b as inclusive sub-bounds that are
\* members of the range and returns Range(a, direction, b); a sub-bound
\* outside the range is an error.
C9_InclusiveSubBounds ==
    PlainSlice =>
        IF IsMember(rcall.self, rcall.a.n) /\ IsMember(rcall.self, rcall.b.n)
        THEN /\ IsOk(rcall.res)
             /\ SameFields(rcall.res.val,
                           MkRange(rcall.a.n, Range_direction(rcall.self), rcall.b.n))
        ELSE ~IsOk(rcall.res)

\* where a slice bound falls among len positions
Position(b, len, dflt) ==
    IF b.k = "none" THEN dflt
    ELSE IF b.n < 0 THEN (IF b.n + len < 0 THEN 0 ELSE b.n + len)
    ELSE IF b.n > len THEN len ELSE b.n

\* C9 amended: range[a:b] takes a and b as zero-based positions, a negative
\* one counting from the end, an omitted one standing for the start or the
\* end, and one outside the range clamped to it: it never raises, and it
\* returns a Range of the same direction holding the members at positions
\* a up to, and not including, b.
C9_PositionalSlice ==
    (rcall.op = "slice" /\ rcall.s.k = "none") =>
        LET len == Range__len__(rcall.self)
        IN  /\ IsOk(rcall.res)
            /\ Range_direction(rcall.res.val) = Range_direction(rcall.self)
            /\ Range__iter__(rcall.res.val) =
                  SubSeq(Range__iter__(rcall.self),
                         Position(rcall.a, len, 0) + 1,
                         Position(rcall.b, len, len))

C9_Witness ==
    /\ rcall.op = "slice" /\ rcall.self = MkRange(1, "to", 3)
    /\ rcall.a = PyInt(1) /\ rcall.b = PyInt(3) /\ rcall.s = NoArg
    /\ rcall.res = Ok(MkRange(2, "to", 3))

C9_WitnessClamped ==
    /\ rcall.op = "slice" /\ rcall.self = MkRange(3, "downto", 1)
    /\ rcall.a = PyInt(0) /\ rcall.b = PyInt(MaxIdx + 1) /\ rcall.s = NoArg
    /\ rcall.res = Ok(MkRange(3, "downto", 1))

-----------------------------------------------------------------------------
(* Python's list operations, as array.py and logic_array.py use them *)

Min(a, b) == IF a <= b THEN a ELSE b

Max(a, b) == IF a >= b THEN a ELSE b

\* a bound of a list slice with no step: counted from the end when negative,
\* clamped to the list
ListBound(b, len) == IF b < 0 THEN Max(b + len, 0) ELSE Min(b, len)

\* list[lo:hi]
ListGetSlice(list, lo, hi) ==
    SubSeq(list, ListBound(lo, Len(list)) + 1, ListBound(hi, Len(list)))

\* list[lo:hi] = values: the slice, empty at lo when hi is before lo, is
\* replaced by the values, however many they are
ListSetSlice(list, lo, hi, values) ==
    SubSeq(list, 1, ListBound(lo, Len(list))) \o values
    \o SubSeq(list, Max(ListBound(hi, Len(list)), ListBound(lo, Len(list))) + 1,
              Len(list))

\* list[i] = value for an index inside the list
ListSetItem(list, i, value) == [list EXCEPT ![i + 1] = value]

-----------------------------------------------------------------------------
(* types.py and array.py *)

\* an array object of class cls: its _value list and its _range
ArrayObj(cls, value, range) ==
    [k |-> "array", cls |-> cls, _value |-> value, _range |-> range]

IsArray(v) == v.k = "array"

\* Array derives from ConstArray; LogicArray derives from _ConstLogicArray
ArrayBase(cls) ==
    CASE cls = "Array" -> "ConstArray"
      [] cls = "LogicArray" -> "_ConstLogicArray"
      [] OTHER -> "object"

IsArraySubclass(sub, cls) == sub = cls \/ ArrayBase(sub) = cls

AbstractConstArray_left(self) == Range_left(self._range)

AbstractConstArray_right(self) == Range_right(self._range)

AbstractConstArray_direction(self) == Range_direction(self._range)

AbstractConstArray__len__(self) == Range__len__(self._range)

\* ConstArray.__init__ without the check of the length against the range
ConstArray__init__Unchecked(cls, value, range) ==
    IF range.k = "none"
    THEN Ok(ArrayObj(cls, value, Range__init__(0, PyStr("to"), PyInt(Len(value) - 1)).val))
    ELSE Ok(ArrayObj(cls, value, range))

\* ConstArray(value, range) and Array(value, range): value is the list the
\* iterable gives, range is a Range or omitted
ConstArray__init__(cls, value, range) ==
    IF range.k = "none"
    THEN Ok(ArrayObj(cls, value, Range__init__(0, PyStr("to"), PyInt(Len(value) - 1)).val))
    ELSE IF Len(value) # Range__len__(range)
    THEN Raise("ValueError")
    ELSE Ok(ArrayObj(cls, value, range))

\* try: return self._range.index(index); except ValueError: raise IndexError
IndexOrError(found) == IF IsOk(found) THEN found ELSE Raise("IndexError")

ConstArray_index(self, index) == IndexOrError(Range_index(self._range, index))

\* the bounds a slice names: an omitted one is the array's own
SliceLeft(self, item) ==
    IF item.start.k # "none" THEN item.start.n ELSE AbstractConstArray_left(self)

SliceRight(self, item) ==
    IF item.stop.k # "none" THEN item.stop.n ELSE AbstractConstArray_right(self)

\* Range(left, self.direction, right)
SliceRange(self, left, right) ==
    Range__init__(left, PyStr(AbstractConstArray_direction(self)), PyInt(right)).val

\* self._value[idx] for the position idx the index names
ValueAt(self, idx) ==
    IF ~IsOk(idx) THEN idx
    ELSE IF idx.val >= Len(self._value) THEN Raise("IndexError")
    ELSE Ok(self._value[idx.val + 1])

ConstArray_getslice(self, range, left_idx, right_idx) ==
    IF Range__len__(range) = 0 THEN Raise("IndexError")
    ELSE IF ~IsOk(left_idx) THEN left_idx
    ELSE IF ~IsOk(right_idx) THEN right_idx
    ELSE ConstArray__init__(self.cls,
             ListGetSlice(self._value, left_idx.val, right_idx.val + 1),
             range)

\* ConstArray.__getitem__ slicing the list up to right_idx, not through it
ConstArray_getslice_Exclusive(self, range, left_idx, right_idx) ==
    IF Range__len__(range) = 0 THEN Raise("IndexError")
    ELSE IF ~IsOk(left_idx) THEN left_idx
    ELSE IF ~IsOk(right_idx) THEN right_idx
    ELSE ConstArray__init__(self.cls,
             ListGetSlice(self._value, left_idx.val, right_idx.val),
             range)

ConstArray__getitem__Exclusive(self, item) ==
    IF item.k = "int"
    THEN ValueAt(self, ConstArray_index(self, item.n))
    ELSE IF item.k = "slice"
    THEN IF item.step.k # "none" THEN Raise("IndexError")
         ELSE ConstArray_getslice_Exclusive(self,
                  SliceRange(self, SliceLeft(self, item), SliceRight(self, item)),
                  ConstArray_index(self, SliceLeft(self, item)),
                  ConstArray_index(self, SliceRight(self, item)))
    ELSE Raise("TypeError")

ConstArray__getitem__(self, item) ==
    IF item.k = "int"
    THEN ValueAt(self, ConstArray_index(self, item.n))
    ELSE IF item.k = "slice"
    THEN IF item.step.k # "none" THEN Raise("IndexError")
         ELSE ConstArray_getslice(self,
                  SliceRange(self, SliceLeft(self, item), SliceRight(self, item)),
                  ConstArray_index(self, SliceLeft(self, item)),
                  ConstArray_index(self, SliceRight(self, item)))
    ELSE Raise("TypeError")

\* the outcome of a __setitem__ that raises: the array is as it was
Failed(st, self) == [st |-> st, self |-> self]

\* self._value[idx] = value
SetValueAt(self, idx, value) ==
    IF ~IsOk(idx) THEN Failed(idx.st, self)
    ELSE IF idx.val >= Len(self._value) THEN Failed("IndexError", self)
    ELSE [st |-> "ok",
          self |-> [self EXCEPT !._value = ListSetItem(@, idx.val, value)]]

\* Array.__setitem__ looking the bounds up before it compares the lengths
Array_setslice_IndexFirst(self, range, left_idx, right_idx, value) ==
    IF Range__len__(range) = 0 THEN Failed("IndexError", self)
    ELSE IF ~IsOk(left_idx) THEN Failed(left_idx.st, self)
    ELSE IF ~IsOk(right_idx) THEN Failed(right_idx.st, self)
    ELSE IF Len(value) # Range__len__(range) THEN Failed("ValueError", self)
    ELSE [st |-> "ok",
          self |-> [self EXCEPT !._value =
                       ListSetSlice(@, left_idx.val, right_idx.val + 1, value)]]

\* Array.__setitem__ without the check of len(value) against len(range)
Array_setslice_Unchecked(self, range, left_idx, right_idx, value) ==
    IF Range__len__(range) = 0 THEN Failed("IndexError", self)
    ELSE IF ~IsOk(left_idx) THEN Failed(left_idx.st, self)
    ELSE IF ~IsOk(right_idx) THEN Failed(right_idx.st, self)
    ELSE [st |-> "ok",
          self |-> [self EXCEPT !._value =
                       ListSetSlice(@, left_idx.val, right_idx.val + 1, value)]]

Array_setslice(self, range, left_idx, right_idx, value) ==
    IF Range__len__(range) = 0 THEN Failed("IndexError", self)
    ELSE IF Len(value) # Range__len__(range) THEN Failed("ValueError", self)
    ELSE IF ~IsOk(left_idx) THEN Failed(left_idx.st, self)
    ELSE IF ~IsOk(right_idx) THEN Failed(right_idx.st, self)
    ELSE [st |-> "ok",
          self |-> [self EXCEPT !._value =
                       ListSetSlice(@, left_idx.val, right_idx.val + 1, value)]]

\* self[item] = value on an Array: the outcome and the array afterwards
Array__setitem__(self, item, value) ==
    IF item.k = "int"
    THEN SetValueAt(self, ConstArray_index(self, item.n), value)
    ELSE IF item.k = "slice"
    THEN IF item.step.k # "none" THEN Failed("IndexError", self)
         ELSE Array_setslice(self,
                  SliceRange(self, SliceLeft(self, item), SliceRight(self, item)),
                  ConstArray_index(self, SliceLeft(self, item)),
                  ConstArray_index(self, SliceRight(self, item)),
                  value)
    ELSE Failed("TypeError", self)

-----------------------------------------------------------------------------
(* logic_array.py *)

_ConstLogicArray__init__(cls, value, range) ==
    IF range.k = "none"
    THEN Ok(ArrayObj(cls, value, Range__init__(0, PyStr("to"), PyInt(Len(value) - 1)).val))
    ELSE IF Len(value) # Range__len__(range)
    THEN Raise("ValueError")
    ELSE Ok(ArrayObj(cls, value, range))

_ConstLogicArray_index(self, index) == IndexOrError(Range_index(self._range, index))

_ConstLogicArray_getslice(self, range, left_idx, right_idx) ==
    IF ~IsOk(left_idx) THEN left_idx
    ELSE IF ~IsOk(right_idx) THEN right_idx
    ELSE _ConstLogicArray__init__("LogicArray",
             ListGetSlice(self._value, left_idx.val, right_idx.val),
             range)

\* a slice of a logic array is built as a LogicArray whatever self is
_ConstLogicArray__getitem__(self, item) ==
    IF item.k = "int"
    THEN ValueAt(self, _ConstLogicArray_index(self, item.n))
    ELSE IF item.k = "slice"
    THEN IF item.step.k # "none" THEN Raise("ValueError")
         ELSE _ConstLogicArray_getslice(self,
                  SliceRange(self, SliceLeft(self, item), SliceRight(self, item)),
                  _ConstLogicArray_index(self, SliceLeft(self, item)),
                  _ConstLogicArray_index(self, SliceRight(self, item)))
    ELSE Raise("TypeError")

LogicArray_setslice(self, left_idx, right_idx, value) ==
    IF ~IsOk(left_idx) THEN Failed(left_idx.st, self)
    ELSE IF ~IsOk(right_idx) THEN Failed(right_idx.st, self)
    ELSE IF Len(value) # PyRangeLen(PyRange(left_idx.val, right_idx.val, 1))
    THEN Failed("ValueError", self)
    ELSE [st |-> "ok",
          self |-> [self EXCEPT !._value =
                       ListSetSlice(@, left_idx.val, right_idx.val, value)]]

\* self[item] = value on a LogicArray: the outcome and the array afterwards
LogicArray__setitem__(self, item, value) ==
    IF item.k = "int"
    THEN SetValueAt(self, _ConstLogicArray_index(self, item.n), value)
    ELSE IF item.k = "slice"
    THEN IF item.step.k # "none" THEN Failed("ValueError", self)
         ELSE LogicArray_setslice(self,
                  _ConstLogicArray_index(self, SliceLeft(self, item)),
                  _ConstLogicArray_index(self, SliceRight(self, item)),
                  value)
    ELSE Failed("TypeError", self)

\* the elements a factory function hands to LogicArray: cls(v) for each v,
\* or the first exception one of them raises
FirstFailure(made) ==
    IF \E i \in DOMAIN made : ~IsOk(made[i])
    THEN made[CHOOSE i \in DOMAIN made :
                 /\ ~IsOk(made[i])
                 /\ \A j \in DOMAIN made : ~IsOk(made[j]) => i <= j]
    ELSE Ok([i \in DOMAIN made |-> made[i].val])

ConvertAll(cls, value) ==
    FirstFailure([i \in 1..Len(value) |-> StdLogic__new__(cls, value[i])])

\* LogicArray(value=made, range=range) unless making the elements raised
LogicArrayFrom(made, range) ==
    IF IsOk(made) THEN _ConstLogicArray__init__("LogicArray", made.val, range)
    ELSE made

\* LogicArray(value=(cls(v) for v in value), range=range)
LogicArrayOf(cls, value, range) == LogicArrayFrom(ConvertAll(cls, value), range)

StdLogicArray(value, range) == LogicArrayOf("StdLogic", value, range)

X01ZArray(value, range) == LogicArrayOf("X01Z", value, range)

BitArray(value, range) == LogicArrayOf("Bit", value, range)

-----------------------------------------------------------------------------
(* types.py: iteration; array.py and logic_array.py: concatenation *)

\* self[item], by the class of self
GetItem(self, item) ==
    IF self.cls \in {"LogicArray", "_ConstLogicArray"}
    THEN _ConstLogicArray__getitem__(self, item)
    ELSE ConstArray__getitem__(self, item)

\* for idx in self.range: yield self[idx]
AbstractConstArray__iter__(self) ==
    [i \in 1..AbstractConstArray__len__(self) |->
        GetItem(self, PyInt(Range__iter__(self._range)[i])).val]

\* ConstArray.__add__ asking for type(other) is type(self)
ConstArray__add__Exact(self, other) ==
    IF IsArray(other) /\ other.cls = self.cls
    THEN ConstArray__init__(self.cls,
             AbstractConstArray__iter__(self) \o AbstractConstArray__iter__(other),
             NoArg)
    ELSE NotImplemented

ConstArray__add__(self, other) ==
    IF IsArray(other) /\ IsArraySubclass(other.cls, self.cls)
    THEN ConstArray__init__(self.cls,
             AbstractConstArray__iter__(self) \o AbstractConstArray__iter__(other),
             NoArg)
    ELSE NotImplemented

_ConstLogicArray__add__(self, other) ==
    IF ~(IsArray(other) /\ IsArraySubclass(other.cls, "_ConstLogicArray"))
    THEN NotImplemented
    ELSE _ConstLogicArray__init__("LogicArray",
             AbstractConstArray__iter__(self) \o AbstractConstArray__iter__(other),
             NoArg)

\* Python's None
None == [k |-> "None"]

\* the body of __radd__ is the ellipsis alone: the call returns None
_ConstLogicArray__radd__(self, other) == Ok(None)

IsLogicArray(v) == IsArray(v) /\ v.cls \in {"LogicArray", "_ConstLogicArray"}

\* The expression a + b: a.__add__(b), then, when that is not implemented and
\* the types differ, b.__radd__(a) if type(b) has one; TypeError otherwise.
\* An int has no __add__ that accepts an array, and ConstArray and Array have
\* no __radd__.
PyAddOf(a, b, fwd) ==
    IF fwd # NotImplemented THEN fwd
    ELSE IF IsLogicArray(b) /\ ~(IsArray(a) /\ a.cls = b.cls)
    THEN _ConstLogicArray__radd__(b, a)
    ELSE Raise("TypeError")

PyAdd(a, b) ==
    PyAddOf(a, b, IF IsLogicArray(a) THEN _ConstLogicArray__add__(a, b)
                  ELSE IF IsArray(a) THEN ConstArray__add__(a, b)
                  ELSE NotImplemented)

-----------------------------------------------------------------------------
(* array.py and logic_array.py: equality *)

\* list == list: the lengths, then the members pairwise by ==
ListEq(x, y) == Len(x) = Len(y) /\ \A i \in 1..Len(x) : PyEq(x[i], y[i])

\* ConstArray.__eq__ asking for type(other) is type(self)
ConstArray__eq__Exact(self, other) ==
    IF IsArray(other) /\ other.cls = self.cls
    THEN Ok(ListEq(self._value, other._value))
    ELSE NotImplemented

ConstArray__eq__(self, other) ==
    IF IsArray(other) /\ IsArraySubclass(other.cls, self.cls)
    THEN Ok(ListEq(self._value, other._value))
    ELSE NotImplemented

_ConstLogicArray__eq__(self, other) ==
    IF IsArray(other) /\ IsArraySubclass(other.cls, self.cls)
    THEN Ok(ListEq(self._value, other._value))
    ELSE NotImplemented

\* a.__eq__(b) by the class of a; an int, a str or another object answers
\* NotImplemented to an array
ArrayEqMethod(a, b) ==
    IF IsLogicArray(a) THEN _ConstLogicArray__eq__(a, b)
    ELSE IF IsArray(a) THEN ConstArray__eq__(a, b)
    ELSE NotImplemented

\* The expression a == b for two distinct objects: a.__eq__(b), then
\* b.__eq__(a), then identity, which is false.  (No array class overrides
\* the __eq__ of its base, so the reflected method never goes first.)
PyArrayEqOf(ab, ba) ==
    IF ab # NotImplemented THEN ab.val
    ELSE IF ba # NotImplemented THEN ba.val
    ELSE FALSE

PyArrayEq(a, b) == PyArrayEqOf(ArrayEqMethod(a, b), ArrayEqMethod(b, a))

-----------------------------------------------------------------------------
(* logic_array.py: the bitwise operators *)

\* the result r of x op y, kept in the subtype of x
InTypeOf(x, r) ==
    IF IsLogic(x) /\ IsOk(r) /\ IsLogic(r.val) THEN Ok(Logic(x.cls, r.val.repr))
    ELSE r

\* a op b for a, b in zip(x, y) without promotion to the wider subtype
ZipBinary_LeftType(x, y, op) ==
    [i \in 1..Min(Len(x), Len(y)) |-> InTypeOf(x[i], PyBinary(x[i], y[i], op))]

\* a op b for a, b in zip(x, y)
ZipBinary(x, y, op) ==
    [i \in 1..Min(Len(x), Len(y)) |-> PyBinary(x[i], y[i], op)]

\* LogicArray(a op b for a, b in zip(self, other)), after the length check
CombineElements(self, other, op) ==
    IF AbstractConstArray__len__(self) # AbstractConstArray__len__(other)
    THEN Raise("ValueError")
    ELSE LogicArrayFrom(FirstFailure(ZipBinary(AbstractConstArray__iter__(self),
                                               AbstractConstArray__iter__(other), op)),
                        NoArg)

_ConstLogicArray__and__(self, other) ==
    IF ~(IsArray(other) /\ IsArraySubclass(other.cls, "_ConstLogicArray"))
    THEN NotImplemented
    ELSE CombineElements(self, other, "and")

_ConstLogicArray__or__(self, other) ==
    IF ~(IsArray(other) /\ IsArraySubclass(other.cls, "_ConstLogicArray"))
    THEN NotImplemented
    ELSE CombineElements(self, other, "or")

_ConstLogicArray__xor__(self, other) ==
    IF ~(IsArray(other) /\ IsArraySubclass(other.cls, self.cls))
    THEN NotImplemented
    ELSE CombineElements(self, other, "xor")

\* the bodies of the reflected methods are the ellipsis alone: None
_ConstLogicArray__rand__(self, other) == Ok(None)

_ConstLogicArray__ror__(self, other) == Ok(None)

_ConstLogicArray__rxor__(self, other) == Ok(None)

ArrayForward(a, b, op) ==
    IF ~IsLogicArray(a) THEN NotImplemented
    ELSE CASE op = "and" -> _ConstLogicArray__and__(a, b)
           [] op = "or" -> _ConstLogicArray__or__(a, b)
           [] op = "xor" -> _ConstLogicArray__xor__(a, b)

ArrayReflected(b, a, op) ==
    CASE op = "and" -> _ConstLogicArray__rand__(b, a)
      [] op = "or" -> _ConstLogicArray__ror__(b, a)
      [] op = "xor" -> _ConstLogicArray__rxor__(b, a)

\* The expression a op b with an array operand: the forward method of a,
\* then, when that is not implemented and the types differ, the reflected
\* method of b; TypeError when neither implements it.  An int, a str, an
\* object and an Array have no forward method that accepts a logic array.
PyArrayBinaryOf(a, b, op, fwd) ==
    IF fwd # NotImplemented THEN fwd
    ELSE IF IsLogicArray(b) /\ ~(IsArray(a) /\ a.cls = b.cls)
    THEN ArrayReflected(b, a, op)
    ELSE Raise("TypeError")

PyArrayBinary(a, b, op) == PyArrayBinaryOf(a, b, op, ArrayForward(a, b, op))

-----------------------------------------------------------------------------
(* The array under test and the calls made on it *)

MaxLen == 3

\* every list of at most n members of S
Lists(S, n) == UNION {[1..m -> S] : m \in 0..n}

ArrayElements == {PyStr("a"), PyStr("b")}

LogicLiterals == {PyStr("0"), PyStr("X")}

ArrayRanges == {MkRange(l, d, r) : l \in 0..MaxIdx, d \in Directions, r \in 0..MaxIdx}

Constructors == {"Array", "StdLogicArray", "BitArray"}

Literals(ctor) == IF ctor = "Array" THEN ArrayElements ELSE LogicLiterals

Construct(ctor, value, range) ==
    CASE ctor = "Array" -> ConstArray__init__("Array", value, range)
      [] ctor = "StdLogicArray" -> StdLogicArray(value, range)
      [] ctor = "BitArray" -> BitArray(value, range)

\* the values a caller assigns: what the array was built from
Assignable(self) == IF self.cls = "Array" THEN ArrayElements ELSE LogicLiterals

\* x, y, x, y, ... of length n
Alternating(n, x, y) == [i \in 1..n |-> IF i % 2 = 1 THEN x ELSE y]

\* the lists a caller assigns to a slice: of every length up to one more
\* than the longest array, with neighbours that differ
AssignableLists(self) ==
    {Alternating(n, p[1], p[2]) :
        n \in 0..(MaxLen + 1),
        p \in {q \in Assignable(self) \X Assignable(self) : q[1] # q[2]}}

IndexItems == {PyInt(i) : i \in 0..MaxIdx}

SliceItemBounds == {NoArg} \cup IndexItems

SliceItems ==
    {Slice(a, b, NoArg) : a \in SliceItemBounds, b \in SliceItemBounds}
        \cup {Slice(NoArg, NoArg, PyInt(1)), Slice(PyInt(0), PyInt(1), PyInt(2))}

\* self[item] = value, by the class of self
SetItem(self, item, value) ==
    IF self.cls = "LogicArray" THEN LogicArray__setitem__(self, item, value)
    ELSE Array__setitem__(self, item, value)

\* what the statement self[item] = value gives its caller
Returned(st) == IF st = "ok" THEN Ok(None) ELSE Raise(st)

\* what an array is concatenated with
Addends ==
    {ArrayObj("Array", <<PyStr("b")>>, MkRange(0, "to", 0)),
     ArrayObj("Array", <<PyStr("a"), PyStr("b")>>, MkRange(1, "downto", 0)),
     ArrayObj("LogicArray", <<Logic("StdLogic", _X)>>, MkRange(0, "to", 0)),
     ArrayObj("LogicArray", <<Logic("Bit", _c0), Logic("Bit", _c0)>>,
              MkRange(1, "downto", 0)),
     ArrayObj("ConstArray", <<PyStr("a")>>, MkRange(2, "to", 2)),
     PyInt(1), Object}

\* what an array is compared with: the addends, and arrays of its own
\* elements of every class and range
Comparands(self) ==
    Addends \cup
    {ArrayObj(cls, self._value, range) :
        cls \in {"ConstArray", "Array", "LogicArray"},
        range \in {r \in ArrayRanges : Range__len__(r) = Len(self._value)}}

\* the logic values arrays are built of
OperandElements(cls) ==
    IF cls = "Bit" THEN {Logic("Bit", _c0), Logic("Bit", _c1)}
    ELSE {Logic(cls, _X), Logic(cls, _c1)}

\* what an array is combined with by &, | and ^: logic arrays of its own
\* length of each element type, a longer one, a descending one, an Array,
\* and values that are no arrays
Operands(self) ==
    {ArrayObj("LogicArray", value, MkRange(0, "to", Len(value) - 1)) :
        value \in UNION {[1..Len(self._value) -> OperandElements(cls)] :
                            cls \in LogicClasses}}
    \cup {ArrayObj("LogicArray", [i \in 1..(MaxLen + 1) |-> Logic("Bit", _c1)],
                   MkRange(0, "to", MaxLen)),
          ArrayObj("LogicArray", <<Logic("X01Z", _Z), Logic("X01Z", _c0)>>,
                   MkRange(2, "downto", 1)),
          ArrayObj("Array", <<PyStr("a"), PyStr("b")>>, MkRange(0, "to", 1)),
          PyInt(7), PyStr("nope"), Object}

Idle == acall.op = "none"

\* Array(value, range), StdLogicArray(value, range), BitArray(value, range)
ArrayConstruct ==
    /\ Idle /\ arr.k = "none"
    /\ \E ctor \in Constructors, range \in {NoArg} \cup ArrayRanges :
         \E value \in Lists(Literals(ctor), MaxLen) :
            LET res == Construct(ctor, value, range)
            IN  /\ acall' = [op |-> "new", ctor |-> ctor, value |-> value,
                             range |-> range, res |-> res]
                /\ arr' = IF IsOk(res) THEN res.val ELSE arr
    /\ UNCHANGED <<lcall, rcall, unsignedVars, internVars, storageVars>>

\* arr[i]
ArrayGetIndex ==
    /\ Idle /\ IsArray(arr)
    /\ \E item \in IndexItems \cup {Object} :
            acall' = [op |-> "getindex", self |-> arr, item |-> item,
                      res |-> GetItem(arr, item)]
    /\ UNCHANGED <<arr, lcall, rcall, unsignedVars, internVars, storageVars>>

\* arr[l:r]
ArrayGetSlice ==
    /\ Idle /\ IsArray(arr)
    /\ \E item \in SliceItems :
            acall' = [op |-> "getslice", self |-> arr, item |-> item,
                      res |-> GetItem(arr, item)]
    /\ UNCHANGED <<arr, lcall, rcall, unsignedVars, internVars, storageVars>>

\* arr[i] = value
ArraySetIndex ==
    /\ Idle /\ IsArray(arr)
    /\ \E item \in IndexItems \cup {Object}, value \in Assignable(arr) :
            LET done == SetItem(arr, item, value)
            IN  /\ acall' = [op |-> "setindex", self |-> arr, item |-> item,
                             value |-> value, res |-> Returned(done.st)]
                /\ arr' = done.self
    /\ UNCHANGED <<lcall, rcall, unsignedVars, internVars, storageVars>>

\* arr[l:r] = values
ArraySetSlice ==
    /\ Idle /\ IsArray(arr)
    /\ \E item \in SliceItems, value \in AssignableLists(arr) :
            LET done == SetItem(arr, item, value)
            IN  /\ acall' = [op |-> "setslice", self |-> arr, item |-> item,
                             value |-> value, res |-> Returned(done.st)]
                /\ arr' = done.self
    /\ UNCHANGED <<lcall, rcall, unsignedVars, internVars, storageVars>>

\* arr + other
ArrayConcat ==
    /\ Idle /\ IsArray(arr)
    /\ \E other \in Addends :
            acall' = [op |-> "add", self |-> arr, other |-> other,
                      res |-> PyAdd(arr, other)]
    /\ UNCHANGED <<arr, lcall, rcall, unsignedVars, internVars, storageVars>>

\* other + arr
ArrayConcatRight ==
    /\ Idle /\ IsArray(arr)
    /\ \E other \in Addends :
            acall' = [op |-> "radd", self |-> arr, other |-> other,
                      res |-> PyAdd(other, arr)]
    /\ UNCHANGED <<arr, lcall, rcall, unsignedVars, internVars, storageVars>>

\* arr == other and other == arr
ArrayCompare ==
    /\ Idle /\ IsArray(arr)
    /\ \E other \in Comparands(arr) :
            acall' = [op |-> "eq", self |-> arr, other |-> other,
                      res |-> Ok(PyBool(IF PyArrayEq(arr, other) THEN 1 ELSE 0)),
                      rres |-> Ok(PyBool(IF PyArrayEq(other, arr) THEN 1 ELSE 0))]
    /\ UNCHANGED <<arr, lcall, rcall, unsignedVars, internVars, storageVars>>

\* arr & other, arr | other, arr ^ other, and the same with other on the left
ArrayBitwise ==
    /\ Idle /\ IsArray(arr)
    /\ \E other \in Operands(arr), op \in BinaryOps :
            acall' = [op |-> op, self |-> arr, other |-> other,
                      res |-> PyArrayBinary(arr, other, op),
                      rres |-> PyArrayBinary(other, arr, op)]
    /\ UNCHANGED <<arr, lcall, rcall, unsignedVars, internVars, storageVars>>

\* the caller is done with the result of the last call
Return ==
    /\ ~Idle
    /\ acall' = [op |-> "none"]
    /\ UNCHANGED <<arr, lcall, rcall, unsignedVars, internVars, storageVars>>

Next ==
    \/ ArrayConstruct
    \/ ArrayGetIndex
    \/ ArrayGetSlice
    \/ ArraySetIndex
    \/ ArraySetSlice
    \/ ArrayConcat
    \/ ArrayConcatRight
    \/ ArrayCompare
    \/ ArrayBitwise
    \/ Return

Spec == Init /\ [][Next]_vars

-----------------------------------------------------------------------------
(* The claims about arrays, checked under Spec *)

\* the number of stored elements equals len(range)
LengthMatches(a) == Len(a._value) = Range__len__(a._range)

\* the call returned an array
ReturnedArray == "res" \in DOMAIN acall /\ IsOk(acall.res) /\ IsArray(acall.res.val)

\* C1: the array under test, after construction and after every index
\* assignment, slice assignment, slicing and concatenation, successful or
\* failing, stores as many elements as its range has members, and so does
\* every array a call returns; a constructor given a range whose length
\* differs from the number of values raises ValueError.
C1_LengthIsRangeLength ==
    /\ IsArray(arr) => LengthMatches(arr)
    /\ ReturnedArray => LengthMatches(acall.res.val)
    /\ (/\ acall.op = "new" /\ acall.range # NoArg
        /\ Len(acall.value) # Range__len__(acall.range))
       => acall.res = Raise("ValueError")

\* a slice assignment has replaced elements of the array
C1_Witness ==
    /\ acall.op = "setslice" /\ acall.res.st = "ok"
    /\ arr # acall.self
    /\ Len(arr._value) = MaxLen

\* a failed slice assignment, and a rejected construction
C1_WitnessFailed ==
    /\ acall.op = "setslice" /\ acall.res.st = "ValueError"
    /\ Len(acall.value) = MaxLen + 1

C1_WitnessRejected ==
    /\ acall.op = "new" /\ acall.ctor = "Array" /\ acall.range # NoArg
    /\ Len(acall.value) = 2 /\ Range__len__(acall.range) = 3
    /\ acall.res = Raise("ValueError")

\* i lies between l and r, whichever way round they are
Between(l, i, r) == (l <= i /\ i <= r) \/ (r <= i /\ i <= l)

\* l and r are members of the range of a, and r is not before l in its direction
SliceBoundsFit(a, l, r) ==
    /\ Between(AbstractConstArray_left(a), l, AbstractConstArray_right(a))
    /\ Between(AbstractConstArray_left(a), r, AbstractConstArray_right(a))
    /\ IF AbstractConstArray_direction(a) = "to" THEN l <= r ELSE l >= r
    /\ Range__len__(a._range) > 0

\* res is the array of range Range(l, direction, r) whose element at every
\* index k of that range is a[k]
IsSliceOf(res, a, l, r) ==
    /\ IsOk(res) /\ IsArray(res.val)
    /\ res.val._range = MkRange(l, AbstractConstArray_direction(a), r)
    /\ \A k \in Bounds :
          Between(l, k, r) =>
             /\ IsOk(GetItem(a, PyInt(k)))
             /\ GetItem(res.val, PyInt(k)) = GetItem(a, PyInt(k))

\* a[l:r] on an Array, with no step
PlainArraySlice ==
    /\ acall.op = "getslice" /\ acall.self.cls = "Array"
    /\ acall.item.step = NoArg

\* C10: for an Array a and slice bounds l, r, an omitted one standing for
\* a.left or a.right, that are members of a.range with r not before l in
\* a's direction, a[l:r] is an array of range Range(l, a.direction, r), both
\* bounds inclusive, whose element at every index k of that range equals
\* a[k]; a itself is unchanged.
C10_SliceIsInclusive ==
    (/\ PlainArraySlice
     /\ SliceBoundsFit(acall.self, SliceLeft(acall.self, acall.item),
                       SliceRight(acall.self, acall.item)))
    => /\ IsSliceOf(acall.res, acall.self, SliceLeft(acall.self, acall.item),
                    SliceRight(acall.self, acall.item))
       /\ arr = acall.self

\* a descending Array of three elements sliced to its last two
C10_Witness ==
    /\ PlainArraySlice
    /\ acall.self = ArrayObj("Array", <<PyStr("a"), PyStr("b"), PyStr("a")>>,
                             MkRange(3, "downto", 1))
    /\ acall.item = Slice(PyInt(2), NoArg, NoArg)
    /\ acall.res = Ok(ArrayObj("Array", <<PyStr("b"), PyStr("a")>>,
                               MkRange(2, "downto", 1)))
    /\ arr = acall.self

\* an ascending Array sliced with both bounds given
C10_WitnessAscending ==
    /\ PlainArraySlice
    /\ acall.self = ArrayObj("Array", <<PyStr("a"), PyStr("b"), PyStr("b")>>,
                             MkRange(1, "to", 3))
    /\ acall.item = Slice(PyInt(1), PyInt(2), NoArg)
    /\ acall.res = Ok(ArrayObj("Array", <<PyStr("a"), PyStr("b")>>,
                               MkRange(1, "to", 2)))

\* the full slice a[:]
FullSlice == Slice(NoArg, NoArg, NoArg)

\* C11: for any Array a, of any length including zero and of either
\* direction, the full slice a[:] succeeds and returns an array equal to a.
C11_FullSliceEqual ==
    (PlainArraySlice /\ acall.item = FullSlice) =>
        /\ IsOk(acall.res) /\ IsArray(acall.res.val)
        /\ PyArrayEq(acall.res.val, acall.self)
        /\ PyArrayEq(acall.self, acall.res.val)

\* the full slice of an Array of no elements raises IndexError
C11_Witness ==
    /\ PlainArraySlice /\ acall.item = FullSlice
    /\ acall.self = ArrayObj("Array", <<>>, MkRange(0, "to", 0 - 1))
    /\ acall.res = Raise("IndexError")

\* the full slice of an Array that has elements is equal to it
C11_WitnessEqual ==
    /\ PlainArraySlice /\ acall.item = FullSlice
    /\ Len(acall.self._value) = MaxLen
    /\ acall.res = Ok(acall.self)

\* a[l:r] = vs on an Array, with no step
PlainArraySliceAssignment ==
    /\ acall.op = "setslice" /\ acall.self.cls = "Array"
    /\ acall.item.step = NoArg

\* the indexes of a
Indexes(a) ==
    {k \in Bounds : /\ Range__len__(a._range) > 0
                    /\ Between(AbstractConstArray_left(a), k, AbstractConstArray_right(a))}

\* how far k is from l, counted from 1
Offset(l, k) == (IF k >= l THEN k - l ELSE l - k) + 1

\* after is before with the elements at indexes l..r replaced by vs in
\* order, every other element and the range as they were
ReplacedBetween(after, before, l, r, vs) ==
    /\ after.cls = before.cls
    /\ after._range = before._range
    /\ Len(after._value) = Len(before._value)
    /\ \A k \in Indexes(before) :
          GetItem(after, PyInt(k)) =
             IF Between(l, k, r) THEN Ok(vs[Offset(l, k)])
             ELSE GetItem(before, PyInt(k))

\* C12: on an Array, a[l:r] = vs with l and r members of a.range in a's
\* direction succeeds iff len(vs) = len(Range(l, a.direction, r)); then the
\* elements at indexes l..r become vs in order and every other element and
\* the range are unchanged; on a length mismatch it raises ValueError and
\* the array is left unchanged.
C12_SliceAssignment ==
    (/\ PlainArraySliceAssignment
     /\ SliceBoundsFit(acall.self, SliceLeft(acall.self, acall.item),
                       SliceRight(acall.self, acall.item)))
    => IF Len(acall.value) = Offset(SliceLeft(acall.self, acall.item),
                                    SliceRight(acall.self, acall.item))
       THEN /\ acall.res = Ok(None)
            /\ ReplacedBetween(arr, acall.self,
                               SliceLeft(acall.self, acall.item),
                               SliceRight(acall.self, acall.item), acall.value)
       ELSE /\ acall.res = Raise("ValueError")
            /\ arr = acall.self

\* the last two elements of a descending Array of three are replaced
C12_Witness ==
    /\ PlainArraySliceAssignment
    /\ acall.self = ArrayObj("Array", <<PyStr("a"), PyStr("a"), PyStr("a")>>,
                             MkRange(3, "downto", 1))
    /\ acall.item = Slice(PyInt(2), NoArg, NoArg)
    /\ acall.value = <<PyStr("b"), PyStr("a")>>
    /\ arr = ArrayObj("Array", <<PyStr("a"), PyStr("b"), PyStr("a")>>,
                      MkRange(3, "downto", 1))

\* a list of the wrong length is refused
C12_WitnessMismatch ==
    /\ PlainArraySliceAssignment
    /\ acall.item = Slice(PyInt(1), PyInt(2), NoArg)
    /\ Len(acall.value) = 3 /\ Len(acall.self._value) = 3
    /\ acall.res = Raise("ValueError") /\ arr = acall.self

\* a[item] or a[item] = value on an Array
ArrayRead == acall.op \in {"getindex", "getslice"} /\ acall.self.cls = "Array"
ArrayWrite == acall.op \in {"setindex", "setslice"} /\ acall.self.cls = "Array"

\* k is a member of the range of a
Member(a, k) ==
    /\ Range__len__(a._range) > 0
    /\ Between(AbstractConstArray_left(a), k, AbstractConstArray_right(a))

\* the slice from l to r runs against the direction of a
AgainstDirection(a, l, r) ==
    IF AbstractConstArray_direction(a) = "to" THEN l > r ELSE l < r

\* the slice runs in the direction of a and a bound is no member of a.range
BoundOutside(a, l, r) ==
    /\ ~AgainstDirection(a, l, r)
    /\ ~(Member(a, l) /\ Member(a, r))

\* the errors of reading and writing an Array, a slice with a bound outside
\* the range raising the error whenOutside
AccessErrors(whenOutside) ==
    (ArrayRead \/ ArrayWrite) =>
       /\ acall.item.k \notin {"int", "slice"} => acall.res = Raise("TypeError")
       /\ (acall.item.k = "int" /\ ~Member(acall.self, acall.item.n))
             => acall.res = Raise("IndexError")
       /\ (acall.item.k = "slice" /\ acall.item.step # NoArg)
             => acall.res = Raise("IndexError")
       /\ (/\ acall.item.k = "slice" /\ acall.item.step = NoArg
           /\ AgainstDirection(acall.self, SliceLeft(acall.self, acall.item),
                               SliceRight(acall.self, acall.item)))
             => acall.res = Raise("IndexError")
       /\ (/\ acall.item.k = "slice" /\ acall.item.step = NoArg
           /\ BoundOutside(acall.self, SliceLeft(acall.self, acall.item),
                           SliceRight(acall.self, acall.item)))
             => acall.res = Raise(whenOutside)
       /\ (ArrayWrite /\ ~IsOk(acall.res)) => arr = acall.self

\* the slice assignment gives a list whose length is not that of the slice
LengthDiffers ==
    /\ acall.op = "setslice"
    /\ Len(acall.value) # Offset(SliceLeft(acall.self, acall.item),
                                 SliceRight(acall.self, acall.item))

\* C13 as stated: reading and writing an Array raise IndexError for an int
\* index that is no member of the range, for a slice with a step, for slice
\* bounds against the array's direction and for a slice bound outside the
\* range; a failing write leaves the array unchanged; an index that is
\* neither int nor slice raises TypeError.
C13_IndexErrors == AccessErrors("IndexError")

\* C13: as above, except that a slice assignment with a bound outside the
\* range raises ValueError when the list's length differs from the length of
\* Range(l, a.direction, r), and IndexError only when the lengths agree.
C13_IndexErrorsAfterLength ==
    AccessErrors(IF LengthDiffers THEN "ValueError" ELSE "IndexError")

\* a[0:3] = two values on an Array of range 0 to 1: ValueError, a unchanged
C13_Witness ==
    /\ ArrayWrite /\ acall.op = "setslice"
    /\ acall.self._range = MkRange(0, "to", 1)
    /\ acall.item = Slice(PyInt(0), PyInt(3), NoArg)
    /\ Len(acall.value) = 2
    /\ acall.res = Raise("ValueError") /\ arr = acall.self

\* a[0:3] = four values on the same array: IndexError, a unchanged
C13_WitnessLengthFits ==
    /\ ArrayWrite /\ acall.op = "setslice"
    /\ acall.self._range = MkRange(0, "to", 1)
    /\ acall.item = Slice(PyInt(0), PyInt(3), NoArg)
    /\ Len(acall.value) = 4
    /\ acall.res = Raise("IndexError") /\ arr = acall.self

\* a[0:3] read on the same array: IndexError
C13_WitnessRead ==
    /\ ArrayRead /\ acall.op = "getslice"
    /\ acall.self._range = MkRange(0, "to", 1)
    /\ acall.item = Slice(PyInt(0), PyInt(3), NoArg)
    /\ acall.res = Raise("IndexError")

\* a[object()] = value: TypeError
C13_WitnessTypeError ==
    /\ ArrayWrite /\ acall.item = Object
    /\ acall.res = Raise("TypeError") /\ arr = acall.self

\* a == other and other == a for an Array a
ArrayEquality == acall.op = "eq" /\ acall.self.cls = "Array"

\* both a == other and other == a gave the answer b
BothEqual(b) ==
    /\ acall.res = Ok(PyBool(IF b THEN 1 ELSE 0))
    /\ acall.rres = Ok(PyBool(IF b THEN 1 ELSE 0))

\* C14 as stated: Array equality compares the elements alone, whatever the
\* ranges, and only between instances of the exact same concrete type: an
\* Array and a ConstArray, or an array and a non-array, are never equal.
C14_ExactTypeEquality ==
    ArrayEquality =>
       IF IsArray(acall.other) /\ acall.other.cls = "Array"
       THEN BothEqual(acall.self._value = acall.other._value)
       ELSE BothEqual(FALSE)

\* C14: Array equality compares the elements alone, whatever the ranges,
\* between an Array and an Array or a ConstArray, in either order; an Array
\* and a logic array, or an Array and a non-array, are never equal.
C14_ElementEquality ==
    ArrayEquality =>
       IF IsArray(acall.other) /\ acall.other.cls \in {"Array", "ConstArray"}
       THEN BothEqual(acall.self._value = acall.other._value)
       ELSE BothEqual(FALSE)

\* an Array and a ConstArray of the same elements and another range are equal
C14_Witness ==
    /\ ArrayEquality /\ IsArray(acall.other)
    /\ acall.other.cls = "ConstArray"
    /\ Len(acall.self._value) = 2
    /\ acall.other._value = acall.self._value
    /\ acall.other._range # acall.self._range
    /\ BothEqual(TRUE)

\* two Arrays of the same elements and different ranges are equal
C14_WitnessRanges ==
    /\ ArrayEquality /\ IsArray(acall.other)
    /\ acall.other.cls = "Array"
    /\ Len(acall.self._value) = 2
    /\ acall.other._range # acall.self._range
    /\ BothEqual(TRUE)

\* an Array and a logic array of the same elements are not equal
C14_WitnessLogicArray ==
    /\ ArrayEquality /\ IsArray(acall.other)
    /\ acall.other.cls = "LogicArray"
    /\ acall.other._value = acall.self._value
    /\ BothEqual(FALSE)

\* two Arrays of different elements are not equal
C14_WitnessDifferent ==
    /\ ArrayEquality /\ IsArray(acall.other)
    /\ acall.other.cls = "Array"
    /\ Len(acall.self._value) = Len(acall.other._value)
    /\ BothEqual(FALSE)

\* a + other and other + a for an Array a
ArrayPlus == acall.op = "add" /\ acall.self.cls = "Array"
PlusArray == acall.op = "radd" /\ acall.self.cls = "Array"

\* res is a new array of class cls and range Range(0, 'to', len(a)+len(b)-1)
\* holding the elements of a from left to right, then those of b
IsConcatenation(res, cls, a, b) ==
    /\ IsOk(res) /\ IsArray(res.val)
    /\ res.val.cls = cls
    /\ res.val._range = MkRange(0, "to", Len(a._value) + Len(b._value) - 1)
    /\ res.val._value = a._value \o b._value

\* the operand is an array of the class cls
OtherIs(cls) == IsArray(acall.other) /\ acall.other.cls = cls

C15_WitnessSameType ==
    /\ ArrayPlus /\ OtherIs("Array")
    /\ acall.self._range = MkRange(3, "downto", 2)
    /\ acall.other._range = MkRange(1, "downto", 0)
    /\ IsOk(acall.res) /\ acall.res.val._range = MkRange(0, "to", 3)

\* an Array plus a ConstArray is a TypeError
C15_WitnessTypeError ==
    /\ ArrayPlus /\ OtherIs("ConstArray")
    /\ acall.res = Raise("TypeError")

\* every element of a is a logic value of the subtype cls
Uniform(a, cls) ==
    \A i \in 1..Len(a._value) : IsLogic(a._value[i]) /\ a._value[i].cls = cls

\* a op other and other op a for logic arrays a and other
LogicArrayOperation ==
    /\ acall.op \in BinaryOps
    /\ IsLogicArray(acall.self) /\ IsLogicArray(acall.other)

\* W(x) op W(y)
Promoted(W, x, y, op) ==
    PyBinary(StdLogic__new__(W, x).val, StdLogic__new__(W, y).val, op).val

\* res is ValueError when the lengths of a and b differ, and otherwise the
\* logic array of range 0 to len-1 whose k-th element is W(a_k) op W(b_k)
IsCombination(res, a, b, op, W) ==
    IF Len(a._value) # Len(b._value) THEN res = Raise("ValueError")
    ELSE /\ IsOk(res) /\ IsLogicArray(res.val)
         /\ res.val._range = MkRange(0, "to", Len(a._value) - 1)
         /\ Len(res.val._value) = Len(a._value)
         /\ \A k \in 1..Len(a._value) :
               /\ res.val._value[k].cls = W
               /\ res.val._value[k] = Promoted(W, a._value[k], b._value[k], op)

\* C16: for logic arrays a and b of equal length with element subtypes S
\* and T, a op b for op in {&, |, ^} is a logic array of the same length
\* with range 0 to len-1 whose k-th element is of the wider subtype W of S
\* and T and equals W(a_k) op W(b_k); when the lengths differ the operator
\* raises ValueError.
C16_ElementwisePromotion ==
    LogicArrayOperation =>
       \A S \in LogicClasses, T \in LogicClasses :
          (Uniform(acall.self, S) /\ Uniform(acall.other, T)) =>
             /\ IsCombination(acall.res, acall.self, acall.other, acall.op,
                              Wider(S, T))
             /\ IsCombination(acall.rres, acall.other, acall.self, acall.op,
                              Wider(S, T))

\* a Bit array of two combined with a StdLogic array holding X
C16_Witness ==
    /\ LogicArrayOperation
    /\ Len(acall.self._value) = 2 /\ Uniform(acall.self, "Bit")
    /\ Len(acall.other._value) = 2 /\ Uniform(acall.other, "StdLogic")
    /\ acall.other._value[1].repr = _X
    /\ IsOk(acall.res) /\ Uniform(acall.res.val, "StdLogic")
    /\ IsOk(acall.rres) /\ Uniform(acall.rres.val, "StdLogic")

\* a StdLogic array xor an X01Z array of another direction
C16_WitnessXor ==
    /\ LogicArrayOperation /\ acall.op = "xor"
    /\ Len(acall.self._value) = 2 /\ Uniform(acall.self, "StdLogic")
    /\ Uniform(acall.other, "X01Z")
    /\ acall.other._range = MkRange(2, "downto", 1)
    /\ IsOk(acall.res) /\ acall.res.val._range = MkRange(0, "to", 1)

\* arrays of different lengths
C16_WitnessLengths ==
    /\ LogicArrayOperation
    /\ Len(acall.self._value) = 1 /\ Uniform(acall.self, "Bit")
    /\ Len(acall.other._value) = 2
    /\ acall.res = Raise("ValueError") /\ acall.rres = Raise("ValueError")

\* an operator between a logic array a and an operand that is no logic array
ForeignOperand == IsLogicArray(acall.self) /\ ~IsLogicArray(acall.other)

\* C17: a bitwise operator (&, |, ^) or a concatenation (+) between a logic
\* array and an operand that is not a logic array ends in TypeError, whether
\* the logic array is the left or the right operand; no value, None
\* included, is returned.
C17_ForeignOperandTypeError ==
    /\ (acall.op \in BinaryOps /\ ForeignOperand) =>
          /\ acall.res = Raise("TypeError")
          /\ acall.rres = Raise("TypeError")
    /\ (acall.op \in {"add", "radd"} /\ ForeignOperand) =>
          acall.res = Raise("TypeError")

\* 7 & a for a logic array a returns None, while a & 7 is a TypeError
C17_Witness ==
    /\ acall.op = "and" /\ ForeignOperand
    /\ acall.other = PyInt(7)
    /\ acall.res = Raise("TypeError")
    /\ acall.rres = Ok(None)

\* 1 + a for a logic array a returns None
C17_WitnessConcat ==
    /\ acall.op = "radd" /\ ForeignOperand
    /\ acall.other = PyInt(1)
    /\ acall.res = Ok(None)

\* a[i] = lit on a logic array a, i a member of a.range
LogicArrayIndexAssignment ==
    /\ acall.op = "setindex" /\ IsLogicArray(acall.self)
    /\ acall.item.k = "int" /\ Member(acall.self, acall.item.n)

\* C18: on a logic array of element subtype T, index and slice assignment
\* convert each assigned literal through T's constructor before storing it:
\* after a[i] = lit, a[i] is the logic value T(lit); after any sequence of
\* assignments every stored element is a logic value of subtype T; a
\* literal outside T's permitted set raises ValueError and leaves the array
\* unchanged.
C18_AssignmentConverts ==
    /\ IsLogicArray(arr) => \E T \in LogicClasses : Uniform(arr, T)
    /\ LogicArrayIndexAssignment =>
          \A T \in LogicClasses :
             Uniform(acall.self, T) =>
                IF IsOk(StdLogic__new__(T, acall.value))
                THEN /\ acall.res = Ok(None)
                     /\ GetItem(arr, acall.item) = StdLogic__new__(T, acall.value)
                ELSE /\ acall.res = Raise("ValueError")
                     /\ arr = acall.self

\* a[i] = "X" on a StdLogic array stores the str "X" itself
C18_Witness ==
    /\ LogicArrayIndexAssignment
    /\ Uniform(acall.self, "StdLogic")
    /\ acall.value = PyStr("X")
    /\ acall.res = Ok(None)
    /\ GetItem(arr, acall.item) = Ok(PyStr("X"))

\* a[i] = "X" on a Bit array succeeds
C18_WitnessNotPermitted ==
    /\ LogicArrayIndexAssignment
    /\ Uniform(acall.self, "Bit")
    /\ acall.value = PyStr("X")
    /\ acall.res = Ok(None)
    /\ arr # acall.self

\* a[l:r] and a[l:r] = vs on a logic array a with l and r members of
\* a.range, r not before l in a's direction
LogicArraySlice ==
    /\ acall.op \in {"getslice", "setslice"} /\ IsLogicArray(acall.self)
    /\ acall.item.step = NoArg
    /\ SliceBoundsFit(acall.self, SliceLeft(acall.self, acall.item),
                      SliceRight(acall.self, acall.item))

\* the element got is the assigned value v, as it is or as a logic value
Stores(got, v) ==
    \/ got = Ok(v)
    \/ \E T \in LogicClasses : got = StdLogic__new__(T, v)

\* C19: on a logic array, slices are inclusive of both bounds for reading
\* and for writing: a[l:r] is the array of range Range(l, dir, r) of the
\* elements at indexes l to r, and a[l:r] = vs accepts exactly
\* len(Range(l, dir, r)) values and replaces exactly the elements at
\* indexes l to r.
C19_LogicSliceIsInclusive ==
    /\ (LogicArraySlice /\ acall.op = "getslice") =>
          IsSliceOf(acall.res, acall.self, SliceLeft(acall.self, acall.item),
                    SliceRight(acall.self, acall.item))
    /\ (LogicArraySlice /\ acall.op = "setslice") =>
          (acall.res = Ok(None))
             = (Len(acall.value) = Offset(SliceLeft(acall.self, acall.item),
                                          SliceRight(acall.self, acall.item)))
    /\ (/\ LogicArraySlice /\ acall.op = "setslice" /\ acall.res = Ok(None)
        /\ Len(acall.value) = Offset(SliceLeft(acall.self, acall.item),
                                     SliceRight(acall.self, acall.item))) =>
          \A k \in Indexes(acall.self) :
             IF Between(SliceLeft(acall.self, acall.item), k,
                        SliceRight(acall.self, acall.item))
             THEN Stores(GetItem(arr, PyInt(k)),
                         acall.value[Offset(SliceLeft(acall.self, acall.item), k)])
             ELSE GetItem(arr, PyInt(k)) = GetItem(acall.self, PyInt(k))

\* a[:] on a logic array of two raises ValueError
C19_Witness ==
    /\ LogicArraySlice /\ acall.op = "getslice"
    /\ acall.item = FullSlice
    /\ Len(acall.self._value) = 2
    /\ acall.res = Raise("ValueError")

\* a[:] = vs on a logic array of two with two values raises ValueError
C19_WitnessWriteRefused ==
    /\ LogicArraySlice /\ acall.op = "setslice"
    /\ acall.item = FullSlice
    /\ Len(acall.self._value) = 2 /\ Len(acall.value) = 2
    /\ acall.res = Raise("ValueError") /\ arr = acall.self

\* a[:] = vs on a logic array of two with one value replaces the first only
C19_WitnessWriteShort ==
    /\ LogicArraySlice /\ acall.op = "setslice"
    /\ acall.item = FullSlice
    /\ Len(acall.self._value) = 2 /\ Len(acall.value) = 1
    /\ acall.res = Ok(None)
    /\ arr._value[1] = acall.value[1]
    /\ arr._value[2] = acall.self._value[2]

\* a + other and other + a for logic arrays a and other that have elements
LogicArrayPlus ==
    /\ acall.op \in {"add", "radd"}
    /\ IsLogicArray(acall.self) /\ IsLogicArray(acall.other)
    /\ Len(acall.self._value) > 0 /\ Len(acall.other._value) > 0

\* the left and the right operand of the concatenation
LeftOperand == IF acall.op = "add" THEN acall.self ELSE acall.other
RightOperand == IF acall.op = "add" THEN acall.other ELSE acall.self

\* every element of value as a value of the subtype W
PromotedElements(W, value) ==
    [i \in 1..Len(value) |-> StdLogic__new__(W, value[i]).val]

\* C20: concatenating logic arrays a (element subtype S) and b (element
\* subtype T) gives a logic array of range 0 to len(a)+len(b)-1 holding a's
\* elements followed by b's, every element a value of the wider subtype W
\* of S and T.
C20_ConcatenationPromotes ==
    LogicArrayPlus =>
       \A S \in LogicClasses, T \in LogicClasses :
          (Uniform(LeftOperand, S) /\ Uniform(RightOperand, T)) =>
             /\ IsOk(acall.res) /\ IsLogicArray(acall.res.val)
             /\ acall.res.val._range =
                   MkRange(0, "to", Len(LeftOperand._value)
                                       + Len(RightOperand._value) - 1)
             /\ acall.res.val._value =
                   PromotedElements(Wider(S, T), LeftOperand._value)
                      \o PromotedElements(Wider(S, T), RightOperand._value)

\* a Bit array plus a StdLogic array keeps its Bit elements
C20_Witness ==
    /\ LogicArrayPlus /\ acall.op = "add"
    /\ Len(acall.self._value) = 2 /\ Uniform(acall.self, "Bit")
    /\ Len(acall.other._value) = 1 /\ Uniform(acall.other, "StdLogic")
    /\ IsOk(acall.res)
    /\ acall.res.val._range = MkRange(0, "to", 2)
    /\ acall.res.val._value = acall.self._value \o acall.other._value
    /\ acall.res.val._value[1].cls = "Bit"
    /\ acall.res.val._value[3].cls = "StdLogic"

\* two StdLogic arrays give a StdLogic array
C20_WitnessSameSubtype ==
    /\ LogicArrayPlus /\ acall.op = "radd"
    /\ Len(acall.self._value) = 2 /\ Uniform(acall.self, "StdLogic")
    /\ Uniform(acall.other, "StdLogic")
    /\ IsOk(acall.res) /\ Uniform(acall.res.val, "StdLogic")
    /\ Len(acall.res.val._value) = 3

-----------------------------------------------------------------------------
(* integer.py: Unsigned *)

\* int.bit_length of a non-negative int
RECURSIVE bit_length(_)
bit_length(n) == IF n = 0 THEN 0 ELSE 1 + bit_length(n \div 2)

\* a & b, a | b and a ^ b of non-negative ints
RECURSIVE BitAnd(_, _)
BitAnd(a, b) ==
    IF a = 0 \/ b = 0 THEN 0
    ELSE (a % 2) * (b % 2) + 2 * BitAnd(a \div 2, b \div 2)

RECURSIVE BitOr(_, _)
BitOr(a, b) ==
    IF a = 0 THEN b ELSE IF b = 0 THEN a
    ELSE Max(a % 2, b % 2) + 2 * BitOr(a \div 2, b \div 2)

RECURSIVE BitXor(_, _)
BitXor(a, b) ==
    IF a = 0 THEN b ELSE IF b = 0 THEN a
    ELSE ((a + b) % 2) + 2 * BitXor(a \div 2, b \div 2)

_min_bit_length(value) ==
    IF value < 0 THEN bit_length(0 - value - 1) + 1
    ELSE IF value > 0 THEN bit_length(value)
    ELSE 1

\* _signed_to_unsigned leaving a negative value as it is
_signed_to_unsigned_Keep(value, n_bits) == value

_signed_to_unsigned(value, n_bits) ==
    IF value < 0 THEN value + 2 ^ n_bits ELSE value

UnsignedObj(value, range) == [k |-> "Unsigned", _value |-> value, _range |-> range]

IsUnsigned(v) == v.k = "Unsigned"

\* an iterable argument, as the list of what it yields
Iter(items) == [k |-> "iter", items |-> items]

StdLogic__int__(self) ==
    IF self.repr = _c0 THEN Ok(0)
    ELSE IF self.repr = _c1 THEN Ok(1)
    ELSE Raise("ValueError")

\* int(made) for the result of a construction, or the exception it raised
IntOf(made) == IF IsOk(made) THEN StdLogic__int__(made.val) ELSE made

\* int(Bit(v))
BitAsInt(v) == IntOf(StdLogic__new__("Bit", v))

\* sum(v << i for i, v in enumerate(reversed(bits)))
RECURSIVE Pack(_)
Pack(bits) ==
    IF Len(bits) = 0 THEN 0
    ELSE 2 * Pack(SubSeq(bits, 1, Len(bits) - 1)) + bits[Len(bits)]

\* Unsigned.__init__ refusing a range of exactly the minimum bit length
Unsigned__init__int_Strict(value, length, range) ==
    IF range.k = "none"
    THEN Ok(UnsignedObj(_signed_to_unsigned(value, length),
                        MkRange(length - 1, "downto", 0)))
    ELSE IF Range__len__(range) <= length THEN Raise("ValueError")
    ELSE Ok(UnsignedObj(_signed_to_unsigned(value, Range__len__(range)), range))

\* the branch of Unsigned.__init__ for an int, length its minimum bit length
Unsigned__init__int(value, length, range) ==
    IF range.k = "none"
    THEN Ok(UnsignedObj(_signed_to_unsigned(value, length),
                        MkRange(length - 1, "downto", 0)))
    ELSE IF Range__len__(range) < length THEN Raise("ValueError")
    ELSE Ok(UnsignedObj(_signed_to_unsigned(value, Range__len__(range)), range))

\* the branch of Unsigned.__init__ for an iterable, bits its elements as
\* ints; the message of its ValueError reads length, a local that this
\* branch never assigns, so that building the message raises instead
Unsigned__init__bits(bits, range) ==
    IF ~IsOk(bits) THEN bits
    ELSE IF range.k = "none"
    THEN Ok(UnsignedObj(Pack(bits.val), MkRange(Len(bits.val) - 1, "downto", 0)))
    ELSE IF Range__len__(range) < Len(bits.val) THEN Raise("UnboundLocalError")
    ELSE Ok(UnsignedObj(Pack(bits.val), range))

\* Unsigned(value, range)
Unsigned__init__(value, range) ==
    IF IsNumber(value)
    THEN Unsigned__init__int(value.n, _min_bit_length(value.n), range)
    ELSE Unsigned__init__bits(
             FirstFailure([i \in 1..Len(value.items) |-> BitAsInt(value.items[i])]),
             range)

Unsigned__len__(self) == Range__len__(self._range)

Unsigned__int__(self) == self._value

\* Unsigned._index counting from the left: self.range.index(index)
IndexFromLeft(self, found) ==
    IF IsOk(found) THEN Ok(found.val) ELSE Raise("IndexError")

\* len(self) - self.range.index(index) - 1
IndexFromRight(self, found) ==
    IF IsOk(found) THEN Ok(Unsigned__len__(self) - found.val - 1)
    ELSE Raise("IndexError")

Unsigned_index(self, index) == IndexFromRight(self, Range_index(self._range, index))

\* Bit((self._value >> idx) & 1)
BitAt(self, idx) ==
    IF ~IsOk(idx) THEN idx
    ELSE StdLogic__new__("Bit", PyInt((self._value \div (2 ^ idx.val)) % 2))

Unsigned__getitem__(self, item) ==
    IF IsNumber(item) THEN BitAt(self, Unsigned_index(self, item.n))
    ELSE IF item.k = "slice" THEN Raise("NotImplementedError")
    ELSE Raise("TypeError")

\* (self._value & (((1 << len(self)) - 1) ^ (1 << idx))) | (bit_val << idx)
WithBit(self, idx, bit_val) ==
    IF ~IsOk(idx) THEN Failed(idx.st, self)
    ELSE IF ~IsOk(bit_val) THEN Failed(bit_val.st, self)
    ELSE [st |-> "ok",
          self |-> [self EXCEPT !._value =
                       BitOr(BitAnd(@, BitXor(2 ^ Unsigned__len__(self) - 1,
                                              2 ^ idx.val)),
                             bit_val.val * 2 ^ idx.val)]]

\* self[item] = value on an Unsigned: the outcome and the object afterwards
Unsigned__setitem__(self, item, value) ==
    IF IsNumber(item) THEN WithBit(self, Unsigned_index(self, item.n), BitAsInt(value))
    ELSE IF item.k = "slice" THEN Failed("NotImplementedError", self)
    ELSE Failed("TypeError", self)

\* 1 << new_size raises ValueError for a negative count
Unsigned_resize(self, new_size) ==
    IF new_size < 0 THEN Raise("ValueError")
    ELSE Unsigned__init__(PyInt(BitAnd(self._value, 2 ^ new_size - 1)),
                          MkRange(new_size - 1, "downto", 0))

\* for idx in self.range: yield self[idx]
Unsigned__iter__(self) ==
    [i \in 1..Unsigned__len__(self) |->
        Unsigned__getitem__(self, PyInt(Range__iter__(self._range)[i])).val]

-----------------------------------------------------------------------------
(* the calls made on an Unsigned *)

MaxValue == 5

\* the ints an Unsigned is built from, True included
UnsignedInputs == {PyInt(v) : v \in (0 - MaxValue)..MaxValue} \cup {PyBool(1)}

\* what is offered as a bit
BitInputs == {PyInt(1), PyStr("0"), PyStr("X")}

\* what indexes an Unsigned: ints, an object and a slice
UnsignedItems == IndexItems \cup {Object, Slice(NoArg, NoArg, NoArg)}

UIdle == ucall.op = "none"

\* Unsigned(value) and Unsigned(value, range) for an int
UnsignedFromInt ==
    /\ UIdle /\ u.k = "none"
    /\ \E value \in UnsignedInputs, range \in {NoArg} \cup ArrayRanges :
          LET res == Unsigned__init__(value, range)
          IN  /\ ucall' = [op |-> "new", value |-> value, range |-> range,
                           res |-> res]
              /\ u' = IF IsOk(res) THEN res.val ELSE u
    /\ UNCHANGED <<arrayVars, internVars, storageVars>>

\* Unsigned(bits) and Unsigned(bits, range) for a sequence
UnsignedFromBits ==
    /\ UIdle /\ u.k = "none"
    /\ \E items \in Lists(BitInputs, MaxLen), range \in {NoArg} \cup ArrayRanges :
          LET res == Unsigned__init__(Iter(items), range)
          IN  /\ ucall' = [op |-> "new", value |-> Iter(items), range |-> range,
                           res |-> res]
              /\ u' = IF IsOk(res) THEN res.val ELSE u
    /\ UNCHANGED <<arrayVars, internVars, storageVars>>

\* u[i]
UnsignedGetIndex ==
    /\ UIdle /\ IsUnsigned(u)
    /\ \E item \in UnsignedItems :
          ucall' = [op |-> "getindex", self |-> u, item |-> item,
                    res |-> Unsigned__getitem__(u, item)]
    /\ UNCHANGED <<u, arrayVars, internVars, storageVars>>

\* u[i] = b
UnsignedSetIndex ==
    /\ UIdle /\ IsUnsigned(u)
    /\ \E item \in UnsignedItems, value \in BitInputs \cup {PyInt(0)} :
          LET done == Unsigned__setitem__(u, item, value)
          IN  /\ ucall' = [op |-> "setindex", self |-> u, item |-> item,
                           value |-> value, res |-> Returned(done.st)]
              /\ u' = done.self
    /\ UNCHANGED <<arrayVars, internVars, storageVars>>

\* u = u.resize(new_size)
UnsignedResize ==
    /\ UIdle /\ IsUnsigned(u)
    /\ \E new_size \in (0 - 1)..(MaxLen + 1) :
          LET res == Unsigned_resize(u, new_size)
          IN  /\ ucall' = [op |-> "resize", self |-> u, new_size |-> new_size,
                           res |-> res]
              /\ u' = IF IsOk(res) THEN res.val ELSE u
    /\ UNCHANGED <<arrayVars, internVars, storageVars>>

UnsignedReturn ==
    /\ ~UIdle
    /\ ucall' = [op |-> "none"]
    /\ UNCHANGED <<u, arrayVars, internVars, storageVars>>

NextUnsigned ==
    \/ UnsignedFromInt
    \/ UnsignedFromBits
    \/ UnsignedGetIndex
    \/ UnsignedSetIndex
    \/ UnsignedResize
    \/ UnsignedReturn

SpecUnsigned == Init /\ [][NextUnsigned]_vars

-----------------------------------------------------------------------------
(* the Unsigned claims *)

\* Unsigned(v) or Unsigned(v, range) for an int v >= 0
FromNonNegative ==
    /\ ucall.op = "new" /\ IsNumber(ucall.value)
    /\ ucall.value.n >= 0

\* max(1, bit_length(v)): the least m >= 1 with v < 2^m
Width(v) == CHOOSE m \in 1..(v + 1) : v < 2 ^ m /\ (m = 1 \/ v >= 2 ^ (m - 1))

\* the construction made u, of the value v and the range given
Made(v, range) ==
    /\ IsOk(ucall.res) /\ IsUnsigned(ucall.res.val)
    /\ Unsigned__int__(ucall.res.val) = v
    /\ ucall.res.val._range = range
    /\ u = ucall.res.val

\* C21: constructing an Unsigned from an int v >= 0: with no range the
\* result has range (m-1) downto 0 for m = max(1, bit_length(v)); with a
\* range the construction succeeds iff len(range) >= m and otherwise raises
\* ValueError with no object produced; on success int(result) = v and the
\* range is the one supplied.
C21_UnsignedFromInt ==
    FromNonNegative =>
       IF ucall.range = NoArg
       THEN Made(ucall.value.n, MkRange(Width(ucall.value.n) - 1, "downto", 0))
       ELSE IF Range__len__(ucall.range) >= Width(ucall.value.n)
       THEN Made(ucall.value.n, ucall.range)
       ELSE ucall.res = Raise("ValueError") /\ u.k = "none"

\* Unsigned(5, range) for a range of two: ValueError
C21_Witness ==
    /\ FromNonNegative /\ ucall.value = PyInt(5)
    /\ ucall.range # NoArg /\ Range__len__(ucall.range) = 2
    /\ ucall.res = Raise("ValueError") /\ u.k = "none"

\* Unsigned(5, Range(1, 'to', 3)): made, of exactly three bits
C21_WitnessFits ==
    /\ FromNonNegative /\ ucall.value = PyInt(5)
    /\ ucall.range = MkRange(1, "to", 3)
    /\ Made(5, MkRange(1, "to", 3))

\* Unsigned(0): range 0 downto 0
C21_WitnessZero ==
    /\ FromNonNegative /\ ucall.value = PyInt(0) /\ ucall.range = NoArg
    /\ Made(0, MkRange(0, "downto", 0))

\* u[i] and u[i] = b for an int i
UnsignedRead == ucall.op = "getindex" /\ ucall.item.k = "int"
UnsignedWrite == ucall.op = "setindex" /\ ucall.item.k = "int"

\* the bit of weight 2^w of int(x), as a Bit
BitOfWeight(x, w) ==
    Logic("Bit", IF (Unsigned__int__(x) \div (2 ^ w)) % 2 = 1 THEN _c1 ELSE _c0)

\* the weight of the index i of x: len(x) - x.range.index(i) - 1
WeightOf(x, i) == Unsigned__len__(x) - Offset(Range_left(x._range), i)

\* every index of x but i reads in after as it reads in x
OthersRead(after, x, i) ==
    \A k \in Bounds :
       (Member(x, k) /\ k # i) =>
          Unsigned__getitem__(after, PyInt(k)) = Unsigned__getitem__(x, PyInt(k))

\* C25: for an Unsigned u and an index i that is a member of u.range, u[i]
\* is the bit of int(u) of weight 2^(len(u) - u.range.index(i) - 1); after
\* u[i] = b, u[i] == Bit(b), every other bit of u reads as before and
\* u.range is unchanged; an index outside the range raises IndexError and
\* leaves u unchanged.
C25_BitIndexing ==
    /\ (UnsignedRead /\ Member(ucall.self, ucall.item.n)) =>
          ucall.res = Ok(BitOfWeight(ucall.self, WeightOf(ucall.self, ucall.item.n)))
    /\ (UnsignedRead /\ ~Member(ucall.self, ucall.item.n)) =>
          ucall.res = Raise("IndexError")
    /\ (/\ UnsignedWrite /\ Member(ucall.self, ucall.item.n)
        /\ IsOk(StdLogic__new__("Bit", ucall.value))) =>
          /\ ucall.res = Ok(None)
          /\ Unsigned__getitem__(u, ucall.item) = StdLogic__new__("Bit", ucall.value)
          /\ OthersRead(u, ucall.self, ucall.item.n)
          /\ u._range = ucall.self._range
    /\ (UnsignedWrite /\ ~Member(ucall.self, ucall.item.n)) =>
          ucall.res = Raise("IndexError") /\ u = ucall.self

\* the last index of Unsigned(5, Range(0, 'to', 3)) is the bit of weight 1
C25_Witness ==
    /\ UnsignedRead
    /\ ucall.self = UnsignedObj(5, MkRange(0, "to", 3))
    /\ ucall.item = PyInt(3)
    /\ ucall.res = Ok(Logic("Bit", _c1))

\* u[0] = 1 on the same Unsigned sets the bit of weight 8
C25_WitnessWrite ==
    /\ UnsignedWrite
    /\ ucall.self = UnsignedObj(5, MkRange(0, "to", 3))
    /\ ucall.item = PyInt(0) /\ ucall.value = PyInt(1)
    /\ u = UnsignedObj(13, MkRange(0, "to", 3))

\* u[3] = 1 on an Unsigned of range 2 downto 0: IndexError
C25_WitnessOutside ==
    /\ UnsignedWrite
    /\ ucall.self._range = MkRange(2, "downto", 0)
    /\ ucall.item = PyInt(3) /\ ucall.value = PyInt(1)
    /\ ucall.res = Raise("IndexError") /\ u = ucall.self

\* Unsigned(bits) or Unsigned(bits, range) for a sequence of bits, each of
\* them convertible to a Bit
FromBits ==
    /\ ucall.op = "new" /\ ucall.value.k = "iter"
    /\ \A i \in 1..Len(ucall.value.items) :
          IsOk(StdLogic__new__("Bit", ucall.value.items[i]))

\* 1 for a bit-convertible value that is Bit 1, and 0 otherwise
BitValue(v) == IF StdLogic__new__("Bit", v).val.repr = _c1 THEN 1 ELSE 0

\* the sum of bit_k * 2^(n-1-k) over the items
RECURSIVE MostSignificantFirst(_)
MostSignificantFirst(items) ==
    IF Len(items) = 0 THEN 0
    ELSE BitValue(items[1]) * 2 ^ (Len(items) - 1)
            + MostSignificantFirst(SubSeq(items, 2, Len(items)))

\* C26: constructing an Unsigned from a sequence of n bit-convertible values
\* packs them most-significant-first, with default range (n-1) downto 0;
\* when a range is supplied whose length does not match n, construction
\* fails with ValueError and no object is produced.
C26_UnsignedFromBits ==
    FromBits =>
       IF ucall.range = NoArg
       THEN Made(MostSignificantFirst(ucall.value.items),
                 MkRange(Len(ucall.value.items) - 1, "downto", 0))
       ELSE IF Range__len__(ucall.range) = Len(ucall.value.items)
       THEN Made(MostSignificantFirst(ucall.value.items), ucall.range)
       ELSE ucall.res = Raise("ValueError") /\ u.k = "none"

\* three bits into a range of two: UnboundLocalError
C26_Witness ==
    /\ FromBits /\ Len(ucall.value.items) = 3
    /\ ucall.range # NoArg /\ Range__len__(ucall.range) = 2
    /\ ucall.res = Raise("UnboundLocalError") /\ u.k = "none"

\* two bits into a range of four: an Unsigned of four bits
C26_WitnessLonger ==
    /\ FromBits /\ ucall.value.items = <<PyInt(1), PyStr("0")>>
    /\ ucall.range = MkRange(3, "downto", 0)
    /\ Made(2, MkRange(3, "downto", 0))

\* 1, "0", 1 with no range: 5, of range 2 downto 0
C26_WitnessPacked ==
    /\ FromBits /\ ucall.value.items = <<PyInt(1), PyStr("0"), PyInt(1)>>
    /\ ucall.range = NoArg
    /\ Made(5, MkRange(2, "downto", 0))

\* 0 <= int(x) < 2^len(x), and iterating x yields len(x) bits whose
\* most-significant-first value is int(x)
FitsWidth(x) ==
    /\ 0 <= Unsigned__int__(x)
    /\ Unsigned__int__(x) < 2 ^ Unsigned__len__(x)
    /\ Len(Unsigned__iter__(x)) = Unsigned__len__(x)
    /\ \A i \in 1..Unsigned__len__(x) :
          IsLogic(Unsigned__iter__(x)[i]) /\ Unsigned__iter__(x)[i].cls = "Bit"
    /\ MostSignificantFirst(Unsigned__iter__(x)) = Unsigned__int__(x)

\* C28: for every Unsigned u, after construction (from an int of either
\* sign or from a bit sequence, with or without a range), after resize and
\* after any sequence of bit assignments, 0 <= int(u) < 2^len(u), and
\* iterating u yields exactly len(u) bits whose most-significant-first
\* value is int(u).
C28_ValueFitsWidth == IsUnsigned(u) => FitsWidth(u)

\* Unsigned(-3, range) for a range of four is 13
C28_Witness ==
    /\ ucall.op = "new" /\ ucall.value = PyInt(0 - 3)
    /\ ucall.range # NoArg /\ Range__len__(ucall.range) = 4
    /\ IsUnsigned(u) /\ Unsigned__int__(u) = 13

\* a resize that drops a set bit
C28_WitnessResize ==
    /\ ucall.op = "resize" /\ IsOk(ucall.res)
    /\ Unsigned__int__(ucall.self) = 5 /\ ucall.new_size = 2
    /\ u = UnsignedObj(1, MkRange(1, "downto", 0))

\* an assignment that sets the most significant bit of four
C28_WitnessAssigned ==
    /\ ucall.op = "setindex" /\ ucall.res = Ok(None)
    /\ Unsigned__len__(u) = 4
    /\ Unsigned__int__(ucall.self) < 8 /\ Unsigned__int__(u) >= 8

\* ---------------------------------------------------------------------------
\* the symmetry of the binary operators

TableOf(op) ==
    CASE op = "and" -> _and_table
      [] op = "or" -> _or_table
      [] op = "xor" -> _xor_table

LogicOperation == lcall.op \in BinaryOps /\ IsLogic(lcall.a) /\ IsLogic(lcall.b)

\* C27: the AND, OR and XOR tables are symmetric, a op b and b op a give the
\* same logic value for operands of any subtypes, and the reflected method of
\* b, called with a, gives what the forward operator a op b gives.
C27_SymmetricOperators ==
    LogicOperation =>
        /\ TableOf(lcall.op)[lcall.a.repr + 1][lcall.b.repr + 1]
             = TableOf(lcall.op)[lcall.b.repr + 1][lcall.a.repr + 1]
        /\ IsOk(lcall.res)
        /\ lcall.swapped = lcall.res
        /\ lcall.reflected = lcall.res

C27_Witness ==
    /\ LogicOperation
    /\ lcall.op = "and"
    /\ lcall.a.cls # lcall.b.cls
    /\ lcall.a.repr = _c1 /\ lcall.b.repr = _c0
    /\ IsOk(lcall.res) /\ lcall.res.val.repr = _c0

C27_WitnessReflected ==
    /\ LogicOperation
    /\ lcall.op = "xor"
    /\ lcall.method = NotImplemented
    /\ lcall.a.repr # lcall.b.repr
    /\ lcall.reflected = lcall.res

\* ---------------------------------------------------------------------------
\* logic.py: the interning of logic values.  StdLogic.__new__ and
\* StdLogic._make are both wrapped in functools.lru_cache(maxsize=None): the
\* wrapper looks its key up, returns the stored result on a hit, and on a miss
\* calls the function, stores what it returned under the key and returns it.
\* The wrapper holds no lock across the call.

MaxCalls == 3

\* what object.__new__(cls) returns once _make has set its _repr: a logic
\* value with an identity
Instance(id, cls, repr) == [k |-> "logic", cls |-> cls, repr |-> repr, id |-> id]

\* an argument as a part of a cache key: keys are compared with hash and ==,
\* so True is the key 1 and logic values of equal codes are the same key
ArgKey(value) ==
    IF IsLogic(value) THEN [k |-> "logic", repr |-> value.repr]
    ELSE IF IsNumber(value) THEN PyInt(value.n)
    ELSE value

\* the key of the call cls(value) in the cache of __new__
NewKey(cls, value) == <<cls, ArgKey(value)>>

\* the key of the call cls._make(repr) in the cache of _make
MakeKey(cls, repr) == <<cls, repr>>

CacheHit(entries, key) == \E e \in entries : e.key = key

CacheGet(entries, key) == (CHOOSE e \in entries : e.key = key).val

\* cache[key] = val
CachePut(entries, key, val) ==
    {e \in entries : e.key # key} \cup {[key |-> key, val |-> val]}

\* _make without its lru_cache
MakeCached_Never(cls, repr) == FALSE

\* the lookup of the lru_cache around _make
MakeCached(cls, repr) == CacheHit(cache.make, MakeKey(cls, repr))

\* the call type(self)(table[self._repr][other._repr]) an operator makes: the
\* forward method of a when b is an instance of type(a), else the reflected
\* method of b, which evaluates b op a
OperatorCall(a, b, op) ==
    IF IsInstance(b, a.cls)
    THEN [cls |-> a.cls, value |-> PyStr(TableOf(op)[a.repr + 1][b.repr + 1])]
    ELSE [cls |-> b.cls, value |-> PyStr(TableOf(op)[b.repr + 1][a.repr + 1])]

\* the literals constructions are made from: the default, a literal in either
\* case, another literal of the same code, 1 and True
InternInputs ==
    {NoArg, PyStr("x"), PyStr("X"), PyStr("1"), PyInt(1), PyBool(1)}

AllIdle == \A t \in Threads : threads[t].pc = "idle"

Calling(how, cls, value) ==
    [pc |-> "new_lookup", how |-> how, cls |-> cls, value |-> value]

\* a thread between two constructions
Idling == [pc |-> "idle"]

\* the identity object.__new__(cls) gives an instance: the instances of one
\* class and code are numbered in the order they are made
NewId(cls, repr) ==
    Cardinality({x \in created : x.cls = cls /\ x.repr = repr}) + 1

\* thread t calls cls(value)
InternConstruct(t) ==
    /\ threads[t].pc = "idle"
    /\ calls < MaxCalls
    /\ \E cls \in LogicClasses, value \in InternInputs \cup held :
        threads' = [threads EXCEPT ![t] = Calling("construct", cls, value)]
    /\ calls' = calls + 1
    /\ UNCHANGED <<cache, created, held>>
    /\ UNCHANGED <<arrayVars, unsignedVars, storageVars>>

\* thread t evaluates a op b on two logic values it was given
InternOperate(t) ==
    /\ threads[t].pc = "idle"
    /\ calls < MaxCalls
    /\ \E a \in held, b \in held, op \in BinaryOps :
        threads' = [threads EXCEPT ![t] =
                        Calling("operator", OperatorCall(a, b, op).cls,
                                OperatorCall(a, b, op).value)]
    /\ calls' = calls + 1
    /\ UNCHANGED <<cache, created, held>>
    /\ UNCHANGED <<arrayVars, unsignedVars, storageVars>>

\* the lru_cache around __new__ looks the key up: a hit returns the stored
\* instance
New_lookup(t) ==
    /\ threads[t].pc = "new_lookup"
    /\ IF CacheHit(cache.new, NewKey(threads[t].cls, threads[t].value))
       THEN /\ threads' = [threads EXCEPT ![t] = Idling]
            /\ held' = held \cup {CacheGet(cache.new, NewKey(threads[t].cls, threads[t].value))}
       ELSE /\ threads' = [threads EXCEPT ![t].pc = "new_body"]
            /\ held' = held
    /\ UNCHANGED <<cache, created, calls>>
    /\ UNCHANGED <<arrayVars, unsignedVars, storageVars>>

\* the body of __new__ up to its call of cls._make(_repr), or its ValueError
New_body(t) ==
    /\ threads[t].pc = "new_body"
    /\ threads' = [threads EXCEPT ![t] =
           IF IsOk(StdLogic__new__(threads[t].cls, threads[t].value))
           THEN [pc |-> "make_lookup", how |-> threads[t].how, cls |-> threads[t].cls,
                 value |-> threads[t].value,
                 repr |-> StdLogic__new__(threads[t].cls, threads[t].value).val.repr]
           ELSE Idling]
    /\ UNCHANGED <<cache, created, held, calls>>
    /\ UNCHANGED <<arrayVars, unsignedVars, storageVars>>

WithInstance(t, pc, inst) ==
    [pc |-> pc, how |-> threads[t].how, cls |-> threads[t].cls,
     value |-> threads[t].value, repr |-> threads[t].repr, inst |-> inst]

\* the lru_cache around _make looks the key up: a hit returns the stored
\* instance to __new__
Make_lookup(t) ==
    /\ threads[t].pc = "make_lookup"
    /\ threads' = [threads EXCEPT ![t] =
           IF MakeCached(threads[t].cls, threads[t].repr)
           THEN WithInstance(t, "new_store",
                    CacheGet(cache.make, MakeKey(threads[t].cls, threads[t].repr)))
           ELSE [threads[t] EXCEPT !.pc = "make_body"]]
    /\ UNCHANGED <<cache, created, held, calls>>
    /\ UNCHANGED <<arrayVars, unsignedVars, storageVars>>

\* the body of _make: a new object of cls with its _repr set
Make_body(t) ==
    /\ threads[t].pc = "make_body"
    /\ threads' = [threads EXCEPT ![t] =
           WithInstance(t, "make_store",
               Instance(NewId(threads[t].cls, threads[t].repr), threads[t].cls,
                        threads[t].repr))]
    /\ created' = created \cup
           {Instance(NewId(threads[t].cls, threads[t].repr), threads[t].cls,
                     threads[t].repr)}
    /\ UNCHANGED <<cache, held, calls>>
    /\ UNCHANGED <<arrayVars, unsignedVars, storageVars>>

\* the lru_cache around _make stores what the body returned and returns it
Make_store(t) ==
    /\ threads[t].pc = "make_store"
    /\ cache' = [cache EXCEPT !.make =
           CachePut(cache.make, MakeKey(threads[t].cls, threads[t].repr), threads[t].inst)]
    /\ threads' = [threads EXCEPT ![t].pc = "new_store"]
    /\ UNCHANGED <<created, held, calls>>
    /\ UNCHANGED <<arrayVars, unsignedVars, storageVars>>

\* the lru_cache around __new__ stores what the body returned and returns it
\* to the caller
New_store(t) ==
    /\ threads[t].pc = "new_store"
    /\ cache' = [cache EXCEPT !.new =
           CachePut(cache.new, NewKey(threads[t].cls, threads[t].value), threads[t].inst)]
    /\ threads' = [threads EXCEPT ![t] = Idling]
    /\ held' = held \cup {threads[t].inst}
    /\ UNCHANGED <<created, calls>>
    /\ UNCHANGED <<arrayVars, unsignedVars, storageVars>>

\* a call is started only when no other call is under way
SequentialConstruct(t) == AllIdle /\ InternConstruct(t)

SequentialOperate(t) == AllIdle /\ InternOperate(t)

NextIntern ==
    \E t \in Threads :
        \/ SequentialConstruct(t)
        \/ SequentialOperate(t)
        \/ New_lookup(t)
        \/ New_body(t)
        \/ Make_lookup(t)
        \/ Make_body(t)
        \/ Make_store(t)
        \/ New_store(t)

\* constructions made one after another
SpecIntern == Init /\ [][NextIntern]_vars

NextThreads ==
    \E t \in Threads :
        \/ InternConstruct(t)
        \/ InternOperate(t)
        \/ New_lookup(t)
        \/ New_body(t)
        \/ Make_lookup(t)
        \/ Make_body(t)
        \/ Make_store(t)
        \/ New_store(t)

\* constructions made by threads that interleave at every step
SpecThreads == Init /\ [][NextThreads]_vars

\* ---------------------------------------------------------------------------
\* the interning claims

SamePair(x, y) == x.cls = y.cls /\ x.repr = y.repr

\* thread t has been handed, by _make, an instance that callers already hold
Reusing(t) ==
    /\ threads[t].pc = "new_store"
    /\ threads[t].inst \in held

\* C22: constructions made one after another intern their results: no two
\* instances of the same subtype and code exist, and every construction, from
\* a literal, the default, another logic value or an operator, returns the
\* one instance of its subtype and code.
C22_Interned ==
    /\ \A x \in created, y \in created : SamePair(x, y) => x = y
    /\ held \subseteq created
    /\ \A t \in Threads :
           threads[t].pc = "new_store" =>
               \A x \in held : SamePair(x, threads[t].inst) => x = threads[t].inst

\* two constructions from different literals have returned the identical
\* instance
C22_Witness ==
    /\ AllIdle
    /\ \E e1 \in cache.new, e2 \in cache.new :
           /\ e1.key # e2.key
           /\ e1.key[2].k = "str" /\ e2.key[2].k = "str"
           /\ e1.val = e2.val /\ e1.val \in held

\* an operator is about to return the instance a construction had returned
C22_WitnessOperator ==
    \E t \in Threads : Reusing(t) /\ threads[t].how = "operator"

\* a conversion from a value of another subtype has returned the instance a
\* literal had made
C22_WitnessConversion ==
    /\ AllIdle
    /\ \E e1 \in cache.new, e2 \in cache.new :
           /\ e1.key[2].k = "logic" /\ e2.key[2].k = "int"
           /\ e1.val = e2.val
           /\ \E x \in held : x.repr = e1.val.repr /\ x.cls # e1.val.cls

\* C23: whatever the interleaving of the lookups, creations and stores of
\* concurrent first constructions, callers are never returned two distinct
\* instances of the same subtype and code.
C23_AtMostOneObservable ==
    \A x \in held, y \in held : SamePair(x, y) => x.id = y.id

\* two threads have each made the first construction of a pair, each missed
\* both caches, and they were returned two distinct instances
C23_Witness ==
    /\ AllIdle
    /\ calls = 2
    /\ Cardinality(created) = 2
    /\ \E x \in held, y \in held : SamePair(x, y) /\ x.id # y.id

\* two threads are in the body of _make for the same class and code
C23_WitnessBothMissed ==
    \E s \in Threads, t \in Threads :
        /\ s # t
        /\ threads[s].pc = "make_body" /\ threads[t].pc = "make_body"
        /\ threads[s].cls = threads[t].cls /\ threads[s].repr = threads[t].repr

\* ---------------------------------------------------------------------------
\* array.py: the storage of arrays.  An array object holds a reference to a
\* list object (_value) and to a Range (_range); the heap maps the identity of
\* each list object to its elements.  Only lists that an array references are
\* kept: the list a slice expression builds is dropped once __init__ has
\* copied it.

\* the names the program binds arrays to, in the order it binds them
ArrayNames == <<"a", "b", "c">>

\* the array the j-th name is bound to, read through the heap
View(j) == ArrayObj("Array", heap[arrays[j]._value], arrays[j]._range)

\* self._value = value._value: the list of the array a copy is made from
ListOf_Alias(j) == [heap |-> heap, id |-> arrays[j]._value]

\* self._value = list(value), value being the j-th array: a new list object
\* filled by iterating the array
ListOf(j) ==
    [heap |-> Append(heap, AbstractConstArray__iter__(View(j))), id |-> Len(heap) + 1]

\* self._value = list(value), value being an iterable of these elements
NewList(elements) == [heap |-> Append(heap, elements), id |-> Len(heap) + 1]

\* the array object __init__ has filled: its list, its range, and how the
\* program obtained it
Bound(id, range, how, of) == [_value |-> id, _range |-> range, how |-> how, of |-> of]

StorageLists == {<<PyStr("a"), PyStr("b")>>, <<PyStr("b")>>}

\* the indexes assigned to: two that arrays have and one that few have
StorageIndexes == {PyInt(i) : i \in 0..2}

\* the slices read and assigned to: the whole array, two members in each
\* direction, one member, and one that starts outside most arrays
StorageSlices ==
    {Slice(NoArg, NoArg, NoArg), Slice(PyInt(0), PyInt(1), NoArg),
     Slice(PyInt(1), PyInt(0), NoArg), Slice(PyInt(1), PyInt(1), NoArg),
     Slice(PyInt(2), NoArg, NoArg)}

\* the lists assigned to a slice: of one member, of two, and of none
StorageValues == {<<PyStr("b")>>, <<PyStr("b"), PyStr("a")>>, <<>>}

\* the ranges given with a list: none, or one that counts down to 1
StorageRanges(value) == {NoArg, MkRange(Len(value), "downto", 1)}

\* a = Array(value, range)
StorageNew ==
    /\ arrays = <<>>
    /\ \E value \in StorageLists :
        \E range \in StorageRanges(value) :
            /\ heap' = NewList(value).heap
            /\ arrays' = Append(arrays,
                   Bound(NewList(value).id,
                         ConstArray__init__("Array", value, range).val._range, "new", 0))
    /\ UNCHANGED <<arrayVars, unsignedVars, internVars>>

\* b = a[l:r], a being the j-th array: type(self)(value=self._value[l:r + 1],
\* range=range)
StorageSlice ==
    /\ Len(arrays) < Len(ArrayNames)
    /\ \E j \in DOMAIN arrays, item \in StorageSlices :
        IF IsOk(ConstArray__getitem__(View(j), item))
        THEN /\ heap' = NewList(ConstArray__getitem__(View(j), item).val._value).heap
             /\ arrays' = Append(arrays,
                    Bound(NewList(ConstArray__getitem__(View(j), item).val._value).id,
                          ConstArray__getitem__(View(j), item).val._range, "slice", j))
        ELSE UNCHANGED <<heap, arrays>>
    /\ UNCHANGED <<arrayVars, unsignedVars, internVars>>

\* c = a + b, a and b being the i-th and j-th arrays: type(self)(chain(self,
\* other))
StorageConcat ==
    /\ Len(arrays) < Len(ArrayNames)
    /\ \E i \in DOMAIN arrays, j \in DOMAIN arrays :
        /\ Len(heap[arrays[i]._value]) + Len(heap[arrays[j]._value]) <= MaxLen
        /\ heap' = NewList(ConstArray__add__(View(i), View(j)).val._value).heap
        /\ arrays' = Append(arrays,
               Bound(NewList(ConstArray__add__(View(i), View(j)).val._value).id,
                     ConstArray__add__(View(i), View(j)).val._range, "concat", i))
    /\ UNCHANGED <<arrayVars, unsignedVars, internVars>>

\* b = Array(a) and b = Array(a, a.range), a being the j-th array
StorageCopy ==
    /\ Len(arrays) < Len(ArrayNames)
    /\ \E j \in DOMAIN arrays :
        \E range \in {NoArg, arrays[j]._range} :
            /\ heap' = ListOf(j).heap
            /\ arrays' = Append(arrays,
                   Bound(ListOf(j).id,
                         ConstArray__init__("Array", AbstractConstArray__iter__(View(j)),
                                            range).val._range,
                         "copy", j))
    /\ UNCHANGED <<arrayVars, unsignedVars, internVars>>

\* what self[item] = value leaves of the j-th array: the elements go to the
\* list object the array references
Written(j, done) ==
    /\ heap' = [heap EXCEPT ![arrays[j]._value] = done.self._value]
    /\ arrays' = [arrays EXCEPT ![j]._range = done.self._range]

\* a[i] = v, a being the j-th array
StorageSetIndex ==
    /\ \E j \in DOMAIN arrays, item \in StorageIndexes, value \in ArrayElements :
        Written(j, Array__setitem__(View(j), item, value))
    /\ UNCHANGED <<arrayVars, unsignedVars, internVars>>

\* a[l:r] = values, a being the j-th array
StorageSetSlice ==
    /\ \E j \in DOMAIN arrays, item \in StorageSlices :
        \E value \in StorageValues :
            Written(j, Array__setitem__(View(j), item, value))
    /\ UNCHANGED <<arrayVars, unsignedVars, internVars>>

NextStorage ==
    \/ StorageNew
    \/ StorageSlice
    \/ StorageConcat
    \/ StorageCopy
    \/ StorageSetIndex
    \/ StorageSetSlice

SpecStorage == Init /\ [][NextStorage]_vars

\* ---------------------------------------------------------------------------
\* the storage claim

\* the step binds a new array
Binds == Len(arrays') > Len(arrays)

\* the step changes the elements or the range of the i-th array
Changes(i) == View(i)' # View(i)

\* C24: arrays share no mutable storage: a step that changes the elements or
\* the range of one array, an index or slice assignment to it, changes no
\* other array, whether the arrays were obtained by slicing, by concatenation
\* or by construction from the elements of another; and binding a new array
\* changes none of the arrays there are.
C24_NoSharedStorage ==
    [][/\ Binds => \A i \in DOMAIN arrays : ~Changes(i)
       /\ \A i \in DOMAIN arrays, j \in DOMAIN arrays :
              (i # j /\ Changes(i)) => ~Changes(j)]_vars

\* the member of the j-th array at index k, and the member its parent has there
Own(j, k) == ConstArray__getitem__(View(j), PyInt(k))

OfParent(j, k) == ConstArray__getitem__(View(arrays[j].of), PyInt(k))

\* b = a[l:r] was made and an assignment to one of the two has since made
\* them differ at an index of b
C24_Witness ==
    \E j \in DOMAIN arrays :
        /\ arrays[j].how = "slice"
        /\ arrays[j]._value # arrays[arrays[j].of]._value
        /\ \E k \in 0..2 :
               /\ IsOk(Own(j, k)) /\ IsOk(OfParent(j, k))
               /\ Own(j, k) # OfParent(j, k)

\* b = Array(a) was made and an assignment has since made them differ
C24_WitnessCopy ==
    \E j \in DOMAIN arrays :
        /\ arrays[j].how = "copy"
        /\ heap[arrays[j]._value] # heap[arrays[arrays[j].of]._value]

\* c = a + b was made and an assignment to a has since changed a alone
C24_WitnessConcat ==
    \E j \in DOMAIN arrays :
        /\ arrays[j].how = "concat"
        /\ \E n \in 1..Len(heap[arrays[arrays[j].of]._value]) :
               heap[arrays[j]._value][n] # heap[arrays[arrays[j].of]._value][n]

=============================================================================
